---- MODULE Spec2Model ----
(***************************************************************************)
(* A model of tecbiio/pdf2json: src/invoice_parser.py.                     *)
(*                                                                         *)
(* Python strings are TLA+ strings, read character by character with       *)
(* SubSeq; the characters are ASCII.  Python's None is the empty tuple     *)
(* <<>> and a value that may be None is wrapped as <<v>>.  A float that    *)
(* float() parses from a decimal literal is the exact decimal              *)
(* [m |-> mantissa, e |-> digits after the point], normalised so that two  *)
(* literals of the same value give the same record.                        *)
(***************************************************************************)
EXTENDS Integers, Sequences, FiniteSets, TLC

VARIABLES
    template_type,  \* extract_invoice_lines: the template_type argument
    pc,             \* extract_invoice_lines: "start", "page" (inside the page loop), "done"
    page_index,     \* the page being read (enumerate(pdf.pages, start=1))
    line_no,        \* how many text lines the inner loop has read, all pages together
    text_line,      \* the text line the inner loop read last
    buffer,         \* the candidate buffer
    pending,        \* history: the cleaned lines whose text is in buffer
    buffer_page,    \* history: the page the oldest pending line was read on, 0 when
                    \* nothing is pending
    discarded,      \* history: the buffer the last step threw away (a new-reference
                    \* line, an ignored candidate, a new page), "" when it threw
                    \* nothing away
    row_counter,    \* the per-page row counter
    lines,          \* the output list
    tok_pc,         \* parse_invoice_line alone: "idle", "called", "returned", "reparsed"
    tok_text,       \* parse_invoice_line alone: its argument
    tok_out,        \* parse_invoice_line alone: what it returned
    tok_first,      \* parse_invoice_line alone: what the call before this one returned
    m_pc,           \* main: "idle", "resolve", "reconcile", "done"
    m_i,            \* main: the index in lines of the record the running loop is at
    lookup_url,     \* main: the lookup URL template of the configuration, or None
    update_url,     \* main: the stock update URL template of the configuration, or None
    update_stock,   \* main: args.update_stock
    verbose_lookups,\* main: args.verbose_lookups
    invoice_number, \* main: the invoice number found on the first page, or None
    product_index,  \* main: the index build_product_index returned
    net_log,        \* the requests the run has sent, in order
    last_answer,    \* what the server answered to the last of them (resp), or None
                    \* once the stock loop is done with the record it was sent for
    audit_log,      \* the lines of gen/update_stock.log, in order
    c_pc,           \* fetch_products_catalog: "idle", "probe", "page", "write"
    c_calls,        \* how many times fetch_products_catalog was called
    products_url,   \* fetch_products_catalog: the products_url argument, or None
    c_refresh,      \* fetch_products_catalog: the refresh argument
    cache_file,     \* the text of the file at cache_path, or None when there is none
    c_persisted,    \* history: the list a fetch wrote to the file that still holds it
    c_meta,         \* history: which of MetaResponses answered the first request of
                    \* the last call that sent one, 0 before it
    c_answers,      \* history: which of PageResponses answered each page request of
                    \* that call, in the order of the requests
    c_pages,        \* fetch_products_catalog: pages
    c_page,         \* fetch_products_catalog: page, in the page loop
    c_products,     \* fetch_products_catalog: products
    c_requests,     \* how many requests.get calls the last call has made
    c_result,       \* what the last call returned, or None while it runs
    idx_pc,         \* build_product_index alone: "idle", "called", "returned"
    idx_products,   \* build_product_index alone: its argument
    idx_out         \* build_product_index alone: what it returned

exVars == <<template_type, pc, page_index, line_no, text_line, buffer, pending,
            buffer_page, discarded, row_counter, lines>>

tokVars == <<tok_pc, tok_text, tok_out, tok_first>>

mainVars == <<m_pc, m_i, lookup_url, update_url, update_stock, verbose_lookups,
              invoice_number, product_index, net_log, last_answer, audit_log>>

catVars == <<c_pc, c_calls, products_url, c_refresh, cache_file, c_persisted, c_meta,
             c_answers, c_pages, c_page, c_products, c_requests, c_result>>

idxVars == <<idx_pc, idx_products, idx_out>>

vars == <<exVars, tokVars, mainVars, catVars, idxVars>>

-----------------------------------------------------------------------------
(* Bounds of the model. *)

MaxPages == 2
MaxLines == 4
MaxTokens == 6
MaxRecords == 2
MaxFetches == 2
MaxCatalogPages == 2
MaxProducts == 2

-----------------------------------------------------------------------------
(* What an operation of one part leaves alone in the others. *)

ExtractFrame == UNCHANGED <<tokVars, mainVars, catVars, idxVars>>

TokFrame == UNCHANGED <<exVars, mainVars, catVars, idxVars>>

CatFrame == UNCHANGED <<exVars, tokVars, mainVars, idxVars>>

IdxFrame == UNCHANGED <<exVars, tokVars, mainVars, catVars>>

\* main works on lines, and leaves the rest of the extraction as it ended
MainFrame ==
    UNCHANGED <<tokVars, catVars, idxVars, template_type, pc, page_index, line_no, text_line,
                buffer, pending, buffer_page, discarded, row_counter>>

-----------------------------------------------------------------------------
(* Python values. *)

None == <<>>
Some(v) == <<v>>
IsNone(o) == o = <<>>
Val(o) == o[1]

Ch(s, i) == SubSeq(s, i, i)

Digits == {"0", "1", "2", "3", "4", "5", "6", "7", "8", "9"}

\* str.isdigit / the regex class \d, on ASCII
IsDigit(c) == c \in Digits

\* the whitespace str.split() and str.strip() cut at
IsSpace(c) == c \in {" ", "\t"}

DigitVal ==
    ("0" :> 0) @@ ("1" :> 1) @@ ("2" :> 2) @@ ("3" :> 3) @@ ("4" :> 4) @@
    ("5" :> 5) @@ ("6" :> 6) @@ ("7" :> 7) @@ ("8" :> 8) @@ ("9" :> 9)

LowerOf ==
    ("A" :> "a") @@ ("B" :> "b") @@ ("C" :> "c") @@ ("D" :> "d") @@ ("E" :> "e") @@
    ("F" :> "f") @@ ("G" :> "g") @@ ("H" :> "h") @@ ("I" :> "i") @@ ("J" :> "j") @@
    ("K" :> "k") @@ ("L" :> "l") @@ ("M" :> "m") @@ ("N" :> "n") @@ ("O" :> "o") @@
    ("P" :> "p") @@ ("Q" :> "q") @@ ("R" :> "r") @@ ("S" :> "s") @@ ("T" :> "t") @@
    ("U" :> "u") @@ ("V" :> "v") @@ ("W" :> "w") @@ ("X" :> "x") @@ ("Y" :> "y") @@
    ("Z" :> "z")

LowerChar(c) == IF c \in DOMAIN LowerOf THEN LowerOf[c] ELSE c

\* str.lower(), and the case folding of re.IGNORECASE
RECURSIVE LowerStr(_)
LowerStr(s) == IF s = "" THEN "" ELSE LowerChar(Ch(s, 1)) \o LowerStr(Tail(s))

\* str.strip()
RECURSIVE LStrip(_)
LStrip(s) == IF s # "" /\ IsSpace(Ch(s, 1)) THEN LStrip(Tail(s)) ELSE s

RECURSIVE RStrip(_)
RStrip(s) ==
    IF s # "" /\ IsSpace(Ch(s, Len(s))) THEN RStrip(SubSeq(s, 1, Len(s) - 1)) ELSE s

Strip(s) == RStrip(LStrip(s))

\* str.split(): the maximal runs of non-whitespace characters, in order
RECURSIVE SplitAcc(_, _, _)
SplitAcc(s, cur, acc) ==
    IF s = ""
    THEN IF cur = "" THEN acc ELSE Append(acc, cur)
    ELSE IF IsSpace(Ch(s, 1))
         THEN SplitAcc(Tail(s), "", IF cur = "" THEN acc ELSE Append(acc, cur))
         ELSE SplitAcc(Tail(s), cur \o Ch(s, 1), acc)

Split(s) == SplitAcc(s, "", <<>>)

\* " ".join(tokens)
RECURSIVE Join(_)
Join(toks) ==
    IF toks = <<>> THEN ""
    ELSE IF Len(toks) = 1 THEN toks[1]
    ELSE toks[1] \o " " \o Join(Tail(toks))

\* any(ch.isdigit() for ch in s)
HasDigit(s) == \E i \in 1..Len(s) : IsDigit(Ch(s, i))

AllDigits(s) == s # "" /\ \A i \in 1..Len(s) : IsDigit(Ch(s, i))

\* needle in hay
Contains(hay, needle) ==
    \E h \in {hay}, n \in {needle} :
        \E i \in 1..(Len(h) - Len(n) + 1) : SubSeq(h, i, i + Len(n) - 1) = n

-----------------------------------------------------------------------------
(* Numbers. *)

RECURSIVE StrToNat(_)
StrToNat(s) ==
    IF s = "" THEN 0 ELSE 10 * StrToNat(SubSeq(s, 1, Len(s) - 1)) + DigitVal[Ch(s, Len(s))]

\* the value m / 10^e, in lowest terms of 10
RECURSIVE Decimal(_, _)
Decimal(m, e) ==
    IF e > 0 /\ m % 10 = 0 THEN Decimal(m \div 10, e - 1) ELSE [m |-> m, e |-> e]

AllDigitsOrEmpty(s) == \A i \in 1..Len(s) : IsDigit(Ch(s, i))

\* float(s) for a string over the characters parse_number keeps (digits, '.', '-'):
\* an optional leading '-', then digits with at most one '.', at least one digit;
\* any other string raises ValueError, which is None here
FloatOf(s) ==
    LET neg == s # "" /\ Ch(s, 1) = "-"
        body == IF neg THEN Tail(s) ELSE s
        dots == {i \in 1..Len(body) : Ch(body, i) = "."}
        sign == IF neg THEN -1 ELSE 1
    IN  IF dots = {}
        THEN IF AllDigits(body) THEN Some(Decimal(sign * StrToNat(body), 0)) ELSE None
        ELSE LET k == CHOOSE i \in dots : \A j \in dots : i <= j
                 ip == SubSeq(body, 1, k - 1)
                 fp == SubSeq(body, k + 1, Len(body))
             IN  IF AllDigitsOrEmpty(ip) /\ AllDigitsOrEmpty(fp) /\ ip \o fp # ""
                 THEN Some(Decimal(sign * StrToNat(ip \o fp), Len(fp)))
                 ELSE None

\* re.sub(r"[^\d,.\-]", "", raw)
RECURSIVE KeepNumeric(_)
KeepNumeric(s) ==
    IF s = "" THEN ""
    ELSE (IF IsDigit(Ch(s, 1)) \/ Ch(s, 1) \in {",", ".", "-"} THEN Ch(s, 1) ELSE "")
         \o KeepNumeric(Tail(s))

\* str.replace(",", ".")
RECURSIVE CommaToDot(_)
CommaToDot(s) ==
    IF s = "" THEN ""
    ELSE (IF Ch(s, 1) = "," THEN "." ELSE Ch(s, 1)) \o CommaToDot(Tail(s))

parse_number_NoComma(raw) ==
    IF raw = "" THEN None
    ELSE LET cleaned == KeepNumeric(raw)
         IN  IF cleaned = "" THEN None ELSE FloatOf(cleaned)

parse_number(raw) ==
    IF raw = "" THEN None
    ELSE LET cleaned == KeepNumeric(raw)
         IN  IF cleaned = "" THEN None ELSE FloatOf(CommaToDot(cleaned))

\* re.fullmatch(r"-?\d+(?:[.,]\d+)?", token)
is_number_token(token) ==
    LET body == IF token # "" /\ Ch(token, 1) = "-" THEN Tail(token) ELSE token
    IN  \/ AllDigits(body)
        \/ \E k \in 2..(Len(body) - 1) :
              /\ Ch(body, k) \in {".", ","}
              /\ AllDigits(SubSeq(body, 1, k - 1))
              /\ AllDigits(SubSeq(body, k + 1, Len(body)))

\* re.fullmatch(r"\d+(?:,\d+)?%", token)
is_percent_token(token) ==
    /\ Len(token) >= 2
    /\ Ch(token, Len(token)) = "%"
    /\ LET body == SubSeq(token, 1, Len(token) - 1)
       IN  \/ AllDigits(body)
           \/ \E k \in 2..(Len(body) - 1) :
                 /\ Ch(body, k) = ","
                 /\ AllDigits(SubSeq(body, 1, k - 1))
                 /\ AllDigits(SubSeq(body, k + 1, Len(body)))

-----------------------------------------------------------------------------
(* The field tokenizer. *)

\* tokens[-3], tokens[-2], tokens[-1] of the tokens left once the VAT token is cut
QtyTok_Last(tokens) == tokens[Len(tokens)]

QtyTok(tokens) == tokens[Len(tokens) - 2]
UnitTok(tokens) == tokens[Len(tokens) - 1]
AmountTok(tokens) == tokens[Len(tokens)]

DescTokens_FromFirst(tokens) == SubSeq(tokens, 1, Len(tokens) - 3)

\* tokens[1:-3]
DescTokens(tokens) == SubSeq(tokens, 2, Len(tokens) - 3)

ParsedLine_RawTokens(tokens, tva_token, text) ==
    [reference   |-> tokens[1],
     description |-> Join(DescTokens(tokens)),
     quantity    |-> parse_number(QtyTok(tokens)),
     unit_price  |-> parse_number(UnitTok(tokens)),
     line_total  |-> parse_number(AmountTok(tokens)),
     tva         |-> tva_token,
     raw         |-> Join(tokens)]

\* the dict parse_invoice_line returns once every check has passed
ParsedLine(tokens, tva_token, text) ==
    [reference   |-> tokens[1],
     description |-> Join(DescTokens(tokens)),
     quantity    |-> parse_number(QtyTok(tokens)),
     unit_price  |-> parse_number(UnitTok(tokens)),
     line_total  |-> parse_number(AmountTok(tokens)),
     tva         |-> tva_token,
     raw         |-> text]

parse_invoice_line_AnyRef(text) ==
    LET all == Split(text)
    IN  IF Len(all) < 5 THEN None
        ELSE
        LET tva_token == IF is_percent_token(all[Len(all)]) THEN Some(all[Len(all)]) ELSE None
            tokens == IF ~IsNone(tva_token) THEN SubSeq(all, 1, Len(all) - 1) ELSE all
        IN  IF Len(tokens) < 4 THEN None
            ELSE IF ~(/\ is_number_token(AmountTok(tokens))
                      /\ is_number_token(UnitTok(tokens))
                      /\ is_number_token(QtyTok(tokens))) THEN None
            ELSE IF ~(Contains(UnitTok(tokens), ",") \/ Contains(UnitTok(tokens), ".")) THEN None
            ELSE IF ~(Contains(AmountTok(tokens), ",") \/ Contains(AmountTok(tokens), "."))
                 THEN None
            ELSE IF DescTokens(tokens) = <<>> THEN None
            ELSE Some(ParsedLine(tokens, tva_token, text))

parse_invoice_line(text) ==
    LET all == Split(text)
    IN  IF Len(all) < 5 THEN None
        ELSE
        LET tva_token == IF is_percent_token(all[Len(all)]) THEN Some(all[Len(all)]) ELSE None
            tokens == IF ~IsNone(tva_token) THEN SubSeq(all, 1, Len(all) - 1) ELSE all
        IN  IF Len(tokens) < 4 THEN None
            ELSE IF ~(/\ is_number_token(AmountTok(tokens))
                      /\ is_number_token(UnitTok(tokens))
                      /\ is_number_token(QtyTok(tokens))) THEN None
            ELSE IF ~(Contains(UnitTok(tokens), ",") \/ Contains(UnitTok(tokens), ".")) THEN None
            ELSE IF ~(Contains(AmountTok(tokens), ",") \/ Contains(AmountTok(tokens), "."))
                 THEN None
            ELSE IF ~HasDigit(tokens[1]) THEN None
            ELSE IF DescTokens(tokens) = <<>> THEN None
            ELSE Some(ParsedLine(tokens, tva_token, text))

looks_like_reference_line(text) ==
    LET tokens == Split(text)
    IN  IF tokens = <<>> THEN FALSE ELSE HasDigit(tokens[1])

-----------------------------------------------------------------------------
(* The extraction pipeline: extract_invoice_lines. *)

\* the template_type arguments the model runs with: the two document types, one
\* written in capitals (the code lower-cases it), and an unknown one
TemplateTypes == {"facture", "AVOIR", "devis"}

\* the text lines a page is made of
TextLines ==
    {"REF001 Widget A 3 10,50 31,50 20%",
     "REF002 Widget B part one",
     "continued 2 5,00 10,00",
     "  suite ",
     "",
     "Total ttc 41,50",
     "AV7 Avoir partiel -1 5.00 -5.00",
     "Remise facture 2 1,00 2,00"}

BaseIgnoreParts ==
    <<"REFERENCE DESIGNATION", "Bon de livraison", "Commande client", "Sous Total",
      "Total TTC", "Total HT", "RIB">>

\* ignore_parts, for a template type
IgnoreParts(ttype) ==
    IF LowerStr(ttype) = "facture" THEN Append(BaseIgnoreParts, "Facture")
    ELSE IF LowerStr(ttype) = "avoir" THEN Append(BaseIgnoreParts, "Avoir")
    ELSE BaseIgnoreParts \o <<"Facture", "Avoir">>

\* the keywords as re.IGNORECASE compares them, for each template type
FoldedParts ==
    [t \in TemplateTypes |->
        [i \in DOMAIN IgnoreParts(t) |-> LowerStr(IgnoreParts(t)[i])]]

IsIgnored_CaseSensitive(ttype, candidate) ==
    LET parts == IgnoreParts(ttype)
    IN  \E i \in 1..Len(parts) : Contains(candidate, parts[i])

\* re.search("|".join(ignore_parts), candidate, re.IGNORECASE): the keywords hold no
\* regex operator, so the pattern matches where one of them occurs, whatever the case
IsIgnored(ttype, candidate) ==
    \E parts \in {FoldedParts[ttype]}, folded \in {LowerStr(candidate)} :
        \E i \in 1..Len(parts) : Contains(folded, parts[i])

Candidate_LastLine(buf, cleaned_line) == cleaned_line

Candidate_KeepBuffer(buf, cleaned_line) ==
    IF buf # "" THEN Strip(buf \o " " \o cleaned_line) ELSE cleaned_line

Candidate_NoSpace(buf, cleaned_line) ==
    IF looks_like_reference_line(cleaned_line) THEN cleaned_line
    ELSE IF buf # "" THEN Strip(buf \o cleaned_line)
    ELSE cleaned_line

\* candidate, from the buffer and the cleaned line
Candidate(buf, cleaned_line) ==
    IF looks_like_reference_line(cleaned_line) THEN cleaned_line
    ELSE IF buf # "" THEN Strip(buf \o " " \o cleaned_line)
    ELSE cleaned_line

\* the dict appended to lines
LineRecord(page, row, candidate, parsed) ==
    [page    |-> page,
     row     |-> row,
     columns |-> <<[index |-> 0, value |-> candidate]>>,
     payload |-> [reference   |-> parsed.reference,
                  description |-> parsed.description,
                  quantity    |-> parsed.quantity,
                  unit_price  |-> parsed.unit_price,
                  line_total  |-> parsed.line_total,
                  tva         |-> parsed.tva],
     raw     |-> parsed.raw]

\* lines.append(record)
Emit_Dedup(ls, rec) ==
    IF \E i \in 1..Len(ls) : ls[i].raw = rec.raw /\ ls[i].page = rec.page
    THEN ls ELSE Append(ls, rec)

Emit(ls, rec) == Append(ls, rec)

\* row_counter = 0 at the start of a page
PageStartRow == 0

ExtractInit ==
    /\ template_type \in TemplateTypes
    /\ pc = "start"
    /\ page_index = 0
    /\ line_no = 0
    /\ text_line = ""
    /\ buffer = ""
    /\ pending = <<>>
    /\ buffer_page = 0
    /\ discarded = ""
    /\ row_counter = PageStartRow
    /\ lines = <<>>

OpenPage_KeepBuffer ==
    /\ pc \in {"start", "page"}
    /\ page_index < MaxPages
    /\ pc' = "page"
    /\ page_index' = page_index + 1
    /\ discarded' = ""
    /\ row_counter' = PageStartRow
    /\ UNCHANGED <<template_type, line_no, text_line, lines, buffer, pending,
                   buffer_page>>
    /\ ExtractFrame

OpenPage_NoReset ==
    /\ pc \in {"start", "page"}
    /\ page_index < MaxPages
    /\ pc' = "page"
    /\ page_index' = page_index + 1
    /\ buffer' = ""
    /\ pending' = <<>>
    /\ buffer_page' = 0
    /\ discarded' = buffer
    /\ UNCHANGED <<template_type, line_no, text_line, lines, row_counter>>
    /\ ExtractFrame

\* the outer loop takes the next page
OpenPage ==
    /\ pc \in {"start", "page"}
    /\ page_index < MaxPages
    /\ pc' = "page"
    /\ page_index' = page_index + 1
    /\ buffer' = ""
    /\ pending' = <<>>
    /\ buffer_page' = 0
    /\ discarded' = buffer
    /\ row_counter' = PageStartRow
    /\ UNCHANGED <<template_type, line_no, text_line, lines>>
    /\ ExtractFrame

\* one iteration of the inner loop, on the text line l
ReadLine(l) ==
    /\ pc = "page"
    /\ line_no < MaxLines
    /\ line_no' = line_no + 1
    /\ text_line' = l
    /\ UNCHANGED <<template_type, pc, page_index>>
    /\ ExtractFrame
    /\ \E cleaned_line \in {Strip(l)} :
       \E is_ref \in {looks_like_reference_line(cleaned_line)} :
       \E candidate \in {Candidate(buffer, cleaned_line)} :
       LET kept == IF is_ref THEN <<>> ELSE pending
           dropped == IF is_ref THEN buffer ELSE ""
       IN  IF cleaned_line = ""
           THEN /\ discarded' = ""
                /\ UNCHANGED <<buffer, pending, buffer_page, row_counter, lines>>
           ELSE IF IsIgnored(template_type, candidate)
           THEN /\ buffer' = ""
                /\ pending' = <<>>
                /\ buffer_page' = 0
                /\ discarded' = buffer
                /\ UNCHANGED <<row_counter, lines>>
           ELSE \E parsed \in {parse_invoice_line(candidate)} :
                IF ~IsNone(parsed)
                THEN /\ row_counter' = row_counter + 1
                     /\ lines' = Emit(lines, LineRecord(page_index, row_counter + 1,
                                                       candidate, Val(parsed)))
                     /\ buffer' = ""
                     /\ pending' = <<>>
                     /\ buffer_page' = 0
                     /\ discarded' = dropped
                ELSE /\ buffer' = candidate
                     /\ pending' = Append(kept, cleaned_line)
                     /\ buffer_page' = IF kept = <<>> THEN page_index ELSE buffer_page
                     /\ discarded' = dropped
                     /\ UNCHANGED <<row_counter, lines>>

\* the pages are exhausted: return lines
ExtractReturn ==
    /\ pc \in {"start", "page"}
    /\ pc' = "done"
    /\ UNCHANGED <<template_type, page_index, line_no, text_line, buffer, pending,
                   buffer_page, discarded, row_counter, lines>>
    /\ ExtractFrame

ExtractNext ==
    \/ OpenPage
    \/ \E l \in TextLines : ReadLine(l)
    \/ ExtractReturn

\* extract_invoice_lines is not running
ExtractIdle ==
    /\ template_type = "facture"
    /\ pc = "idle"
    /\ page_index = 0
    /\ line_no = 0
    /\ text_line = ""
    /\ buffer = ""
    /\ pending = <<>>
    /\ buffer_page = 0
    /\ discarded = ""
    /\ row_counter = 0
    /\ lines = <<>>

-----------------------------------------------------------------------------
(* parse_invoice_line on its own, on candidates of every shape. *)

\* the tokens candidates are made of: a reference, a word, an integer, an amount with a
\* comma, a percentage
Tokens == {"R1", "ab", "3", "-1,50", "20%"}

\* candidates written out: the examples of the specification, and irregular spacing
ExampleTexts ==
    {"REF001 Widget A 3 10,50 31,50 20%",
     "REF002 Widget B part one continued 2 5,00 10,00",
     "  R1   ab  3 1,50\t4,50  5,5% ",
     "R1 ab 3 1.50 4.50 5.5%",
     "R1 ab 3 1.50 4,50",
     "R1 ab 2.5 1.50 4.50 20%",
     "R1 ab 3 1.50 4",
     "R1 ab cd 03 1,5 4,50 20%",
     "R1 ab 3 1,50 4,50 20% 20%"}

TokIdle ==
    /\ tok_pc = "idle"
    /\ tok_text = ""
    /\ tok_out = None
    /\ tok_first = None

TokInit ==
    /\ tok_pc = "called"
    /\ tok_out = None
    /\ tok_first = None
    /\ \/ \E n \in 0..MaxTokens : \E toks \in [1..n -> Tokens] : tok_text = Join(toks)
       \/ tok_text \in ExampleTexts

\* parse_invoice_line(tok_text) returns
Tokenize ==
    /\ tok_pc = "called"
    /\ tok_pc' = "returned"
    /\ tok_out' = parse_invoice_line(tok_text)
    /\ UNCHANGED <<tok_text, tok_first>>
    /\ TokFrame

\* parse_invoice_line is called on the raw text of the dict it returned
Retokenize ==
    /\ tok_pc = "returned"
    /\ ~IsNone(tok_out)
    /\ tok_pc' = "reparsed"
    /\ tok_first' = tok_out
    /\ tok_text' = Val(tok_out).raw
    /\ tok_out' = parse_invoice_line(Val(tok_out).raw)
    /\ TokFrame

TokNext ==
    \/ Tokenize
    \/ Retokenize


-----------------------------------------------------------------------------
(* JSON values, as json.loads and resp.json() return them. *)

JNull == [t |-> "null"]
JNum(n) == [t |-> "num", v |-> n]
JStr(str) == [t |-> "str", v |-> str]
JList(items) == [t |-> "list", v |-> items]
JDict(fields) == [t |-> "dict", v |-> fields]

\* bool(j)
Truthy(j) ==
    CASE j.t = "null" -> FALSE
      [] j.t = "num" -> j.v # 0
      [] j.t = "str" -> j.v # ""
      [] j.t = "list" -> j.v # <<>>
      [] j.t = "dict" -> DOMAIN j.v # {}

\* a or b
Or(a, b) == IF Truthy(a) THEN a ELSE b

\* d.get(k), for the dict d
Get(d, k) == IF k \in DOMAIN d.v THEN d.v[k] ELSE JNull

DigitChar == <<"0", "1", "2", "3", "4", "5", "6", "7", "8", "9">>

RECURSIVE NatToStr(_)
NatToStr(n) == IF n < 10 THEN DigitChar[n + 1] ELSE NatToStr(n \div 10) \o DigitChar[(n % 10) + 1]

\* str(j), for a number or a string
Str(j) == IF j.t = "num" THEN (IF j.v < 0 THEN "-" \o NatToStr(-j.v) ELSE NatToStr(j.v))
          ELSE j.v

-----------------------------------------------------------------------------
(* Floats: the decimals [m, e], value m / 10^e. *)

RECURSIVE Scale(_, _)
Scale(m, k) == IF k = 0 THEN m ELSE Scale(10 * m, k - 1)

DecAdd(a, b) ==
    IF a.e >= b.e THEN Decimal(a.m + Scale(b.m, a.e - b.e), a.e)
    ELSE Decimal(Scale(a.m, b.e - a.e) + b.m, b.e)

DecAbs(a) == [m |-> IF a.m < 0 THEN -a.m ELSE a.m, e |-> a.e]

DecNeg(a) == [m |-> -a.m, e |-> a.e]

\* float(j): a number as it is, a string parsed, anything else raises (None here)
ToFloat(j) ==
    CASE j.t = "num" -> Some(Decimal(j.v, 0))
      [] j.t = "str" -> FloatOf(Strip(j.v))
      [] OTHER -> None

-----------------------------------------------------------------------------
(* The product index. *)

RECURSIVE BuildIndex(_, _)
BuildIndex(products, index) ==
    IF products = <<>> THEN index
    ELSE LET p == products[1]
             code == Or(Or(Get(p, "product_code"), Get(p, "code")), Get(p, "reference"))
             pid == Or(Get(p, "id"), Get(p, "product_id"))
             stock == IF Get(p, "stock") # JNull THEN Get(p, "stock")
                      ELSE Or(Or(Get(p, "quantity"), Get(p, "stock_quantity")),
                              Get(p, "stock_level"))
         IN  IF Truthy(code) /\ Truthy(pid)
             THEN BuildIndex(Tail(products),
                             (Strip(Str(code)) :> [id |-> Str(pid), stock |-> stock]) @@ index)
             ELSE BuildIndex(Tail(products), index)

\* the empty dict
EmptyDict == <<>>

build_product_index_FirstWins(products) ==
    BuildIndex([i \in 1..Len(products) |-> products[Len(products) + 1 - i]], EmptyDict)

build_product_index(products) == BuildIndex(products, EmptyDict)

\* products as the catalog lists them, under every alias of a field, with values that
\* are empty or zero, with and without a code and an id
SampleProducts ==
    <<JDict([product_code |-> JStr("A"), code |-> JStr("B"), reference |-> JStr("C"),
             id |-> JNum(1), product_id |-> JNum(2), stock |-> JNum(5), quantity |-> JNum(6)]),
      JDict([code |-> JStr(" A "), product_id |-> JStr("p2"), quantity |-> JNum(6),
             stock_level |-> JNum(8)]),
      JDict([reference |-> JStr("A"), id |-> JNum(3)]),
      JDict([code |-> JStr("A"), stock |-> JNum(9)]),
      JDict([id |-> JNum(4), stock |-> JNum(1)]),
      JDict([name |-> JStr("x")]),
      JDict([product_code |-> JStr(""), code |-> JStr("B"), id |-> JNum(0),
             product_id |-> JNum(7), stock |-> JNum(0), quantity |-> JNum(3)]),
      JDict([code |-> JNum(12), id |-> JNum(5), quantity |-> JNum(0),
             stock_quantity |-> JNum(4)]),
      JDict([code |-> JStr("B"), id |-> JStr("p9"), quantity |-> JNum(0),
             stock_level |-> JNum(0)])>>

IdxIdle ==
    /\ idx_pc = "idle"
    /\ idx_products = <<>>
    /\ idx_out = EmptyDict

IdxInit ==
    /\ idx_pc = "called"
    /\ idx_out = EmptyDict
    /\ \E n \in 0..MaxProducts : \E pick \in [1..n -> DOMAIN SampleProducts] :
          idx_products = [i \in 1..n |-> SampleProducts[pick[i]]]

\* build_product_index(idx_products) returns
IndexCall ==
    /\ idx_pc = "called"
    /\ idx_pc' = "returned"
    /\ idx_out' = build_product_index(idx_products)
    /\ UNCHANGED idx_products
    /\ IdxFrame

IdxNext == IndexCall

-----------------------------------------------------------------------------
(* The requests. *)

\* s.replace(old, new)
RECURSIVE Replace(_, _, _)
Replace(str, old, new) ==
    IF Len(str) < Len(old) THEN str
    ELSE IF SubSeq(str, 1, Len(old)) = old
         THEN new \o Replace(SubSeq(str, Len(old) + 1, Len(str)), old, new)
         ELSE Ch(str, 1) \o Replace(Tail(str), old, new)

\* what a server may answer: no answer at all (the request raises), or a status and a
\* body, the body JSON or not
NoAnswer == [kind |-> "raise"]
Answer(status, body) == [kind |-> "http", status |-> status, json |-> TRUE, body |-> body]
AnswerText(status) == [kind |-> "http", status |-> status, json |-> FALSE, body |-> JNull]

\* requests.get / requests.patch followed by resp.raise_for_status(): raises when the
\* request does, and on a status 4xx or 5xx
Raises(resp) == resp.kind = "raise" \/ (resp.status >= 400 /\ resp.status < 600)

LookupResponses ==
    <<NoAnswer,
      AnswerText(404),
      Answer(500, JDict([id |-> JNum(7)])),
      AnswerText(200),
      AnswerText(304),
      Answer(300, JDict([id |-> JNum(7)])),
      Answer(200, JDict([id |-> JNum(7), data |-> JDict([id |-> JNum(8)])])),
      Answer(201, JDict([data |-> JDict([id |-> JStr("7")])])),
      Answer(200, JDict([data |-> JList(<<JDict([id |-> JNum(7)]), JDict([id |-> JNum(8)])>>)])),
      Answer(200, JList(<<JDict([id |-> JNum(7)]), JDict([id |-> JNum(8)])>>)),
      Answer(200, JDict([name |-> JStr("x")])),
      Answer(200, JDict([data |-> JList(<<JNum(8), JDict([id |-> JNum(8)])>>)])),
      Answer(200, JList(<<>>))>>

PatchResponses == {NoAnswer, AnswerText(200), AnswerText(304), AnswerText(404)}

LookupResult_DataFirst(resp) ==
    IF Raises(resp) THEN <<None, "http_error">>
    ELSE IF ~resp.json THEN <<None, "invalid_json">>
    ELSE LET data == resp.body
         IN  IF data.t = "dict" /\ "data" \in DOMAIN data.v /\ data.v["data"].t = "dict"
                /\ "id" \in DOMAIN data.v["data"].v
             THEN <<Some(Str(data.v["data"].v["id"])), "ok">>
             ELSE IF data.t = "dict" /\ "id" \in DOMAIN data.v
             THEN <<Some(Str(data.v["id"])), "ok">>
             ELSE <<None, "no_id">>

\* fetch_reference_id, once the request got the answer resp: <<id, status>>
LookupResult(resp) ==
    IF Raises(resp) THEN <<None, "http_error">>
    ELSE IF ~resp.json THEN <<None, "invalid_json">>
    ELSE LET data == resp.body
         IN  IF data.t = "dict" /\ "id" \in DOMAIN data.v
             THEN <<Some(Str(data.v["id"])), "ok">>
             ELSE IF /\ data.t = "dict"
                     /\ "data" \in DOMAIN data.v
                     /\ data.v["data"].t = "dict"
                     /\ "id" \in DOMAIN data.v["data"].v
             THEN <<Some(Str(data.v["data"].v["id"])), "ok">>
             ELSE IF /\ data.t = "dict"
                     /\ "data" \in DOMAIN data.v
                     /\ data.v["data"].t = "list"
                     /\ data.v["data"].v # <<>>
                     /\ data.v["data"].v[1].t = "dict"
                     /\ "id" \in DOMAIN data.v["data"].v[1].v
             THEN <<Some(Str(data.v["data"].v[1].v["id"])), "ok">>
             ELSE IF /\ data.t = "list"
                     /\ data.v # <<>>
                     /\ data.v[1].t = "dict"
                     /\ "id" \in DOMAIN data.v[1].v
             THEN <<Some(Str(data.v[1].v["id"])), "ok">>
             ELSE <<None, "no_id">>

\* the request fetch_reference_id sends
LookupRequest(url_template, reference) ==
    [method |-> "GET", url |-> Replace(url_template, "{reference}", reference)]

\* the request patch_stock sends
PatchRequest(url_template, product_id, new_stock, reason) ==
    [method |-> "PATCH",
     url |-> Replace(url_template, "{product_id}", product_id),
     stock |-> new_stock,
     update_reason |-> reason]

PatchSucceeded_Always(resp) == TRUE

\* patch_stock's result, once the request got the answer resp
PatchSucceeded(resp) == ~Raises(resp)

-----------------------------------------------------------------------------
(* main, from the point where extract_invoice_lines has returned. *)

\* args.update_reason, by default
UpdateReason == "sync from pdf"

LookupUrls == {None, Some("L?ref={reference}")}
UpdateUrls == {None, Some("U/{product_id}/stock")}
InvoiceNumbers == {None, Some("F2024")}

\* the product lists fetch_products_catalog may have returned
Catalogs ==
    {<<>>,
     <<JDict([product_code |-> JStr(" REF001 "), id |-> JNum(11), stock |-> JNum(20)]),
       JDict([code |-> JStr("REF002"), product_id |-> JStr("p2"), stock |-> JStr("n/a")])>>,
     <<JDict([reference |-> JStr("REF001"), id |-> JNum(11), stock |-> JStr("7")]),
       JDict([code |-> JStr("REF002"), name |-> JStr("no id")]),
       JDict([code |-> JStr("REF003"), id |-> JNum(13)])>>}

\* candidates of a document; the records of a run are made of up to MaxRecords of them
\* in a row
MainTexts ==
    <<"REF001 Widget A 4 10,50 42,00 20%",
      "REF002 Widget B 1,5 2,00 3,00",
      "REF001 Retour -3 10,50 -31,50",
      "REF001 Widget A 4 10,50 42,00 20%",
      "REF002 Widget B 1,5 2,00 3,00">>

\* the list extract_invoice_lines returns for one page made of the candidates texts
Extracted(texts) ==
    [i \in 1..Len(texts) |-> LineRecord(1, i, texts[i], Val(parse_invoice_line(texts[i])))]

\* payload.get(k)
PGet(payload, k) == IF k \in DOMAIN payload THEN Some(payload[k]) ELSE None

\* payload[k] = v
PSet(payload, k, v) == (k :> v) @@ payload

MainIdle ==
    /\ m_pc = "idle"
    /\ m_i = 0
    /\ lookup_url = None
    /\ update_url = None
    /\ update_stock = FALSE
    /\ verbose_lookups = FALSE
    /\ invoice_number = None
    /\ product_index = EmptyDict
    /\ net_log = <<>>
    /\ last_answer = None
    /\ audit_log = <<>>

MainInit ==
    /\ m_pc = "resolve"
    /\ m_i = 1
    /\ lookup_url \in LookupUrls
    /\ update_url \in UpdateUrls
    /\ update_stock \in BOOLEAN
    /\ verbose_lookups \in BOOLEAN
    /\ invoice_number \in InvoiceNumbers
    /\ template_type \in {"facture", "avoir"}
    /\ \E products \in Catalogs : product_index = build_product_index(products)
    /\ \E n \in 0..MaxRecords, from \in 1..Len(MainTexts) :
          /\ from + n - 1 <= Len(MainTexts)
          /\ lines = Extracted(SubSeq(MainTexts, from, from + n - 1))
    /\ net_log = <<>>
    /\ last_answer = None
    /\ audit_log = <<>>
    /\ pc = "done"
    /\ page_index = 0
    /\ line_no = 0
    /\ text_line = ""
    /\ buffer = ""
    /\ pending = <<>>
    /\ buffer_page = 0
    /\ discarded = ""
    /\ row_counter = 0

\* lines with the payload of record i replaced
WithPayload(i, payload) == [lines EXCEPT ![i].payload = payload]

\* the local index first: <<lookup_id, payload>> after lines 580-588
FromIndex(payload, ref) ==
    IF DOMAIN product_index # {} /\ Strip(ref) \in DOMAIN product_index
    THEN LET entry == product_index[Strip(ref)]
             p1 == IF entry.id # "" /\ verbose_lookups
                   THEN PSet(payload, "lookup_status", "from_cache") ELSE payload
             p2 == IF entry.stock # JNull THEN PSet(p1, "initial_stock", entry.stock) ELSE p1
         IN  <<Some(entry.id), p2>>
    ELSE <<None, payload>>

\* if lookup_id: payload["lookup_id"] = lookup_id
WithLookupId(payload, lookup_id) ==
    IF ~IsNone(lookup_id) /\ Val(lookup_id) # "" THEN PSet(payload, "lookup_id", Val(lookup_id))
    ELSE payload

\* the network call of lines 591-596, answered by resp: <<lookup_id, payload>>
FromLookup(payload, resp) ==
    LET res == LookupResult(resp)
        p1 == IF verbose_lookups THEN PSet(payload, "lookup_status", res[2]) ELSE payload
        p2 == IF verbose_lookups /\ res[2] \in {"http_error", "invalid_json"}
              THEN PSet(p1, "lookup_info", "exception text") ELSE p1
    IN  <<res[1], p2>>

\* one iteration of the lookup loop, which runs when lookup_url is set
ResolveStep ==
    /\ m_pc = "resolve"
    /\ ~IsNone(lookup_url)
    /\ m_i <= Len(lines)
    /\ m_i' = m_i + 1
    /\ LET payload == lines[m_i].payload
           ref == payload.reference
           cached == FromIndex(payload, ref)
       IN  IF ref = ""
           THEN /\ lines' = IF verbose_lookups
                            THEN WithPayload(m_i, PSet(payload, "lookup_status",
                                                       "skipped_no_reference"))
                            ELSE lines
                /\ UNCHANGED <<net_log, last_answer>>
           ELSE IF (IsNone(cached[1]) \/ Val(cached[1]) = "") /\ ~IsNone(lookup_url)
           THEN \E k \in DOMAIN LookupResponses :
                   LET resp == LookupResponses[k]
                       remote == FromLookup(cached[2], resp)
                   IN  /\ net_log' = Append(net_log, LookupRequest(Val(lookup_url), ref))
                       /\ last_answer' = Some(resp)
                       /\ lines' = WithPayload(m_i, WithLookupId(remote[2], remote[1]))
           ELSE /\ lines' = WithPayload(m_i, WithLookupId(cached[2], cached[1]))
                /\ UNCHANGED <<net_log, last_answer>>
    /\ UNCHANGED <<m_pc, lookup_url, update_url, update_stock, verbose_lookups,
                   invoice_number, product_index, audit_log>>
    /\ MainFrame

\* the lookup loop is over, or lookup_url is not set and it does not run
ResolveDone ==
    /\ m_pc = "resolve"
    /\ IsNone(lookup_url) \/ m_i > Len(lines)
    /\ m_pc' = "reconcile"
    /\ m_i' = 1
    /\ UNCHANGED <<lines, lookup_url, update_url, update_stock, verbose_lookups,
                   invoice_number, product_index, net_log, last_answer, audit_log>>
    /\ MainFrame

\* if args.update_stock and update_url
UpdateEnabled == update_stock /\ ~IsNone(update_url)

\* payload.get("lookup_id") or payload.get("reference")
ProductId(payload) ==
    IF "lookup_id" \in DOMAIN payload /\ payload["lookup_id"] # "" THEN payload["lookup_id"]
    ELSE payload.reference

Delta_Signed(ttype, qty) == IF ttype = "facture" THEN DecNeg(qty) ELSE qty

\* delta, for the quantity qty
Delta(ttype, qty) == IF ttype = "facture" THEN DecNeg(DecAbs(qty)) ELSE DecAbs(qty)

NewStock_Running(payload, delta) ==
    LET earlier == {j \in 1..(m_i - 1) : /\ lines[j].payload.reference = payload.reference
                                          /\ "stock_update" \in DOMAIN lines[j].payload}
        last == CHOOSE j \in earlier : \A k \in earlier : k <= j
        initial_stock == PGet(payload, "initial_stock")
        sum == IF IsNone(initial_stock) THEN None
               ELSE IF IsNone(ToFloat(Val(initial_stock))) THEN None
               ELSE Some(DecAdd(Val(ToFloat(Val(initial_stock))), delta))
    IN  IF earlier # {} THEN DecAdd(lines[last].payload["stock_update"].new_stock, delta)
        ELSE IF IsNone(sum) THEN delta ELSE Val(sum)

\* new_stock, for a payload and its delta
NewStock(payload, delta) ==
    LET initial_stock == PGet(payload, "initial_stock")
        sum == IF IsNone(initial_stock) THEN None
               ELSE IF IsNone(ToFloat(Val(initial_stock))) THEN None
               ELSE Some(DecAdd(Val(ToFloat(Val(initial_stock))), delta))
    IN  IF IsNone(sum) THEN delta ELSE Val(sum)

\* reason = invoice_number or args.update_reason
Reason == IF ~IsNone(invoice_number) /\ Val(invoice_number) # "" THEN Val(invoice_number)
          ELSE UpdateReason

\* the entry log_stock_event is given, the timestamp aside
LogEntry(payload, delta, new_stock) ==
    [reference |-> payload.reference,
     product_id |-> ProductId(payload),
     lookup_id |-> PGet(payload, "lookup_id"),
     delta |-> delta,
     reason |-> Reason,
     invoice_number |-> invoice_number,
     initial_stock |-> PGet(payload, "initial_stock"),
     new_stock |-> new_stock,
     status |-> payload["stock_update"].status]

\* one iteration of the stock loop up to the PATCH and its outcome on the payload
\* (lines 604-627); a record without quantity is passed over
ReconcilePatch ==
    /\ m_pc = "reconcile"
    /\ UpdateEnabled
    /\ m_i <= Len(lines)
    /\ LET payload == lines[m_i].payload
           qty == payload.quantity
       IN  IF IsNone(qty)
           THEN /\ m_i' = m_i + 1
                /\ UNCHANGED <<m_pc, lines, net_log, last_answer>>
           ELSE \E resp \in PatchResponses :
                   LET delta == Delta(template_type, Val(qty))
                       new_stock == NewStock(payload, delta)
                       status == IF PatchSucceeded(resp) THEN "patched" ELSE "failed"
                       p1 == PSet(payload, "stock_update",
                                  [delta |-> delta, new_stock |-> new_stock, status |-> status])
                       p2 == IF ~IsNone(invoice_number) /\ Val(invoice_number) # ""
                             THEN PSet(p1, "invoice_number", Val(invoice_number)) ELSE p1
                   IN  /\ net_log' = Append(net_log,
                                            PatchRequest(Val(update_url), ProductId(payload),
                                                         new_stock, Reason))
                       /\ last_answer' = Some(resp)
                       /\ lines' = WithPayload(m_i, p2)
                       /\ m_pc' = "log"
                       /\ UNCHANGED m_i
    /\ UNCHANGED <<lookup_url, update_url, update_stock, verbose_lookups, invoice_number,
                   product_index, audit_log>>
    /\ MainFrame

\* log_stock_event (lines 628-642): appends the entry, or fails and says nothing
ReconcileLog ==
    /\ m_pc = "log"
    /\ LET payload == lines[m_i].payload
           su == payload["stock_update"]
       IN  \E written \in BOOLEAN :
               audit_log' = IF written
                            THEN Append(audit_log, LogEntry(payload, su.delta, su.new_stock))
                            ELSE audit_log
    /\ m_pc' = "reconcile"
    /\ m_i' = m_i + 1
    /\ last_answer' = None
    /\ UNCHANGED <<lines, lookup_url, update_url, update_stock, verbose_lookups,
                   invoice_number, product_index, net_log>>
    /\ MainFrame

\* the stock loop is over, or it does not run: main writes its output
ReconcileDone ==
    /\ m_pc = "reconcile"
    /\ ~UpdateEnabled \/ m_i > Len(lines)
    /\ m_pc' = "done"
    /\ UNCHANGED <<m_i, lines, lookup_url, update_url, update_stock, verbose_lookups,
                   invoice_number, product_index, net_log, last_answer, audit_log>>
    /\ MainFrame

MainNext ==
    \/ ResolveStep
    \/ ResolveDone
    \/ ReconcilePatch
    \/ ReconcileLog
    \/ ReconcileDone

-----------------------------------------------------------------------------
(* The cache file: json.dumps(products, ensure_ascii=False, indent=2) writes  *)
(* it and json.loads reads it.  Numbers are the integers of the model, and a  *)
(* dict is written in one order of its keys: two dicts of the same items are  *)
(* equal in Python whatever the order.                                        *)

RECURSIVE JsonEscape(_)
\* the inside of a JSON string literal for the text str
JsonEscape(str) ==
    IF str = "" THEN ""
    ELSE LET c == Ch(str, 1)
             e == IF c = "\"" THEN "\\\""
                  ELSE IF c = "\\" THEN "\\\\"
                  ELSE IF c = "\n" THEN "\\n"
                  ELSE c
         IN  e \o JsonEscape(SubSeq(str, 2, Len(str)))

RECURSIVE Indent(_)
\* the blanks in front of an item at depth level
Indent(level) == IF level = 0 THEN "" ELSE "  " \o Indent(level - 1)

RECURSIVE KeysOf(_)
\* the keys of a dict, in the order it is written in
KeysOf(keys) ==
    IF keys = {} THEN <<>>
    ELSE LET k == CHOOSE x \in keys : TRUE IN <<k>> \o KeysOf(keys \ {k})

RECURSIVE DumpsAt(_, _), DumpItems(_, _, _), DumpMembers(_, _, _)
\* the text of the value j, at depth level
DumpsAt(j, level) ==
    IF j.t = "null" THEN "null"
    ELSE IF j.t = "num" THEN Str(j)
    ELSE IF j.t = "str" THEN "\"" \o JsonEscape(j.v) \o "\""
    ELSE IF j.t = "list" THEN
        (IF j.v = <<>> THEN "[]"
         ELSE "[\n" \o DumpItems(j.v, 1, level + 1) \o "\n" \o Indent(level) \o "]")
    ELSE (IF DOMAIN j.v = {} THEN "{}"
          ELSE "{\n" \o DumpMembers(j.v, KeysOf(DOMAIN j.v), level + 1)
                     \o "\n" \o Indent(level) \o "}")

DumpItems(items, i, level) ==
    Indent(level) \o DumpsAt(items[i], level)
      \o (IF i = Len(items) THEN "" ELSE ",\n" \o DumpItems(items, i + 1, level))

DumpMembers(fields, keys, level) ==
    Indent(level) \o "\"" \o JsonEscape(keys[1]) \o "\": " \o DumpsAt(fields[keys[1]], level)
      \o (IF Len(keys) = 1 THEN "" ELSE ",\n" \o DumpMembers(fields, Tail(keys), level))

\* json.dumps(j, ensure_ascii=False, indent=2)
Dumps(j) == DumpsAt(j, 0)

\* what a parser returns: a value and the position after it, or a failure
Parsed(v, i) == [ok |-> TRUE, v |-> v, i |-> i]
ParseError == [ok |-> FALSE]

RECURSIVE SkipWs(_, _)
\* the position of the first character of text at or after i that is no blank
SkipWs(text, i) ==
    IF i <= Len(text) /\ Ch(text, i) \in {" ", "\n", "\t", "\r"} THEN SkipWs(text, i + 1)
    ELSE i

RECURSIVE ParseChars(_, _, _)
\* the string literal whose opening quote is before position i
ParseChars(text, i, acc) ==
    IF i > Len(text) THEN ParseError
    ELSE LET c == Ch(text, i)
         IN  IF c = "\"" THEN Parsed(acc, i + 1)
             ELSE IF c = "\n" THEN ParseError
             ELSE IF c # "\\" THEN ParseChars(text, i + 1, acc \o c)
             ELSE IF i = Len(text) THEN ParseError
             ELSE LET d == Ch(text, i + 1)
                  IN  IF d \in {"\"", "\\", "/"} THEN ParseChars(text, i + 2, acc \o d)
                      ELSE IF d = "n" THEN ParseChars(text, i + 2, acc \o "\n")
                      ELSE IF d = "t" THEN ParseChars(text, i + 2, acc \o "\t")
                      ELSE ParseError

RECURSIVE DigitsEnd(_, _)
\* the position after the digits of text that start at i
DigitsEnd(text, i) ==
    IF i <= Len(text) /\ IsDigit(Ch(text, i)) THEN DigitsEnd(text, i + 1) ELSE i

\* the integer literal at position i
ParseInt(text, i) ==
    LET neg == i <= Len(text) /\ Ch(text, i) = "-"
        from == IF neg THEN i + 1 ELSE i
        to == DigitsEnd(text, from)
    IN  IF to = from THEN ParseError
        ELSE IF to > from + 1 /\ Ch(text, from) = "0" THEN ParseError
        ELSE Parsed(JNum((IF neg THEN -1 ELSE 1) * StrToNat(SubSeq(text, from, to - 1))), to)

RECURSIVE ParseValue(_, _), ParseItems(_, _, _), ParseMembers(_, _, _)
\* the JSON value at position i, blanks skipped
ParseValue(text, i) ==
    LET at == SkipWs(text, i)
    IN  IF at > Len(text) THEN ParseError
        ELSE LET c == Ch(text, at)
             IN  IF c = "n" THEN
                     (IF at + 3 <= Len(text) /\ SubSeq(text, at, at + 3) = "null"
                      THEN Parsed(JNull, at + 4) ELSE ParseError)
                 ELSE IF c = "\"" THEN
                     LET str == ParseChars(text, at + 1, "")
                     IN  IF str.ok THEN Parsed(JStr(str.v), str.i) ELSE ParseError
                 ELSE IF c = "-" \/ IsDigit(c) THEN ParseInt(text, at)
                 ELSE IF c = "[" THEN
                     (IF SkipWs(text, at + 1) <= Len(text) /\ Ch(text, SkipWs(text, at + 1)) = "]"
                      THEN Parsed(JList(<<>>), SkipWs(text, at + 1) + 1)
                      ELSE ParseItems(text, at + 1, <<>>))
                 ELSE IF c = "{" THEN
                     (IF SkipWs(text, at + 1) <= Len(text) /\ Ch(text, SkipWs(text, at + 1)) = "}"
                      THEN Parsed(JDict(EmptyDict), SkipWs(text, at + 1) + 1)
                      ELSE ParseMembers(text, at + 1, EmptyDict))
                 ELSE ParseError

\* the items of a list, the one at position i and those after it
ParseItems(text, i, acc) ==
    LET item == ParseValue(text, i)
    IN  IF ~item.ok THEN ParseError
        ELSE LET at == SkipWs(text, item.i)
             IN  IF at > Len(text) THEN ParseError
                 ELSE IF Ch(text, at) = "," THEN ParseItems(text, at + 1, Append(acc, item.v))
                 ELSE IF Ch(text, at) = "]" THEN Parsed(JList(Append(acc, item.v)), at + 1)
                 ELSE ParseError

\* the members of a dict, the one at position i and those after it; of two members
\* of the same key the later one stays
ParseMembers(text, i, acc) ==
    LET at == SkipWs(text, i)
        key == IF at <= Len(text) /\ Ch(text, at) = "\"" THEN ParseChars(text, at + 1, "")
               ELSE ParseError
        colon == IF key.ok THEN SkipWs(text, key.i) ELSE 0
        item == IF key.ok /\ colon <= Len(text) /\ Ch(text, colon) = ":"
                THEN ParseValue(text, colon + 1) ELSE ParseError
    IN  IF ~item.ok THEN ParseError
        ELSE LET next == SkipWs(text, item.i)
                 fields == (key.v :> item.v) @@ acc
             IN  IF next > Len(text) THEN ParseError
                 ELSE IF Ch(text, next) = "," THEN ParseMembers(text, next + 1, fields)
                 ELSE IF Ch(text, next) = "}" THEN Parsed(JDict(fields), next + 1)
                 ELSE ParseError

\* json.loads(text): the value, or None when it raises
Loads(text) ==
    LET doc == ParseValue(text, 1)
    IN  IF doc.ok /\ SkipWs(text, doc.i) > Len(text) THEN Some(doc.v) ELSE None

-----------------------------------------------------------------------------
(* fetch_products_catalog, called MaxFetches times on the same cache_path. *)

ProductsUrls == {None, Some("P")}

\* the items the server lists
CatalogItems ==
    <<JDict([product_code |-> JStr("REF001"), id |-> JNum(11), stock |-> JNum(-2)]),
      JDict([code |-> JStr("REF002"), name |-> JStr("tube 3\" \\ 4"), stock |-> JNull]),
      JStr("n/a")>>

\* the answers to the first request
MetaResponses ==
    <<NoAnswer, AnswerText(403),
      Answer(200, JDict([results |-> JNum(3), results_per_page |-> JNum(2)])),
      Answer(200, JDict([results |-> JNum(3), results_perpage |-> JNum(3)])),
      Answer(200, JList(<<CatalogItems[1]>>)),
      Answer(200, JDict([results |-> JNum(0), results_per_page |-> JNum(2)])),
      Answer(200, JDict([pages |-> JNum(0), results |-> JNum(3), results_per_page |-> JNum(2)]))>>
    \o [n \in 1..MaxCatalogPages |-> Answer(403, JDict([error |-> JDict([pages |-> JNum(n)])]))]

\* the answers to the request of a page
PageResponses ==
    <<NoAnswer, AnswerText(200),
      Answer(200, JDict([data |-> JList(<<CatalogItems[1]>>)])),
      Answer(200, JList(<<CatalogItems[2], CatalogItems[3]>>)),
      Answer(200, JDict([data |-> JStr("none")]))>>

\* what the cache file holds before the first call, when there is one
StaleTexts == {"", "[]"}

\* resp.json(), or None when the request or the decoding raises
JsonOf(resp) == IF resp.kind = "http" /\ resp.json THEN Some(resp.body) ELSE None

Ceil_Floor(a, b) == a \div b

\* math.ceil(a / b), for b > 0
Ceil(a, b) == -((-a) \div b)

Max(a, b) == IF a >= b THEN a ELSE b

\* pages, from the answer to the first request
PagesOf(resp) ==
    LET meta_data == IF IsNone(JsonOf(resp)) THEN JDict(EmptyDict) ELSE Val(JsonOf(resp))
        meta_block == IF meta_data.t = "dict" /\ "error" \in DOMAIN meta_data.v
                      THEN Get(meta_data, "error") ELSE meta_data
        isdict == meta_block.t = "dict"
        total == IF isdict THEN Get(meta_block, "results") ELSE JNull
        per_page == IF isdict
                    THEN Or(Get(meta_block, "results_per_page"), Get(meta_block, "results_perpage"))
                    ELSE JNull
        pages == IF isdict THEN Get(meta_block, "pages") ELSE JNull
    IN  IF Truthy(pages) THEN pages.v
        ELSE IF Truthy(total) /\ Truthy(per_page) THEN Max(1, Ceil(total.v, per_page.v))
        ELSE 1

\* the items one page adds to products
PageItems(resp) ==
    LET data == JsonOf(resp)
    IN  IF IsNone(data) THEN <<>>
        ELSE IF Val(data).t = "dict" /\ "data" \in DOMAIN Val(data).v
                /\ Get(Val(data), "data").t = "list" THEN Get(Val(data), "data").v
        ELSE IF Val(data).t = "list" THEN Val(data).v
        ELSE <<>>

FetchEntry_EmptyIsMiss(file, url, refresh) ==
    IF ~IsNone(file) /\ ~refresh /\ ~IsNone(Loads(Val(file)))
       /\ Val(Loads(Val(file))) # JList(<<>>) THEN "cache"
    ELSE IF IsNone(url) THEN "empty"
    ELSE "probe"

FetchEntry_UrlFirst(file, url, refresh) ==
    IF IsNone(url) THEN "empty"
    ELSE IF ~IsNone(file) /\ ~refresh /\ ~IsNone(Loads(Val(file))) THEN "cache"
    ELSE "probe"

\* where a call goes first: it returns what the cache file holds, it returns the empty
\* list, or it sends the first request
FetchEntry(file, url, refresh) ==
    IF ~IsNone(file) /\ ~refresh /\ ~IsNone(Loads(Val(file))) THEN "cache"
    ELSE IF IsNone(url) THEN "empty"
    ELSE "probe"

CatIdle ==
    /\ c_pc = "idle"
    /\ c_calls = 0
    /\ products_url = None
    /\ c_refresh = FALSE
    /\ cache_file = None
    /\ c_persisted = None
    /\ c_meta = 0
    /\ c_answers = <<>>
    /\ c_pages = 0
    /\ c_page = 0
    /\ c_products = <<>>
    /\ c_requests = 0
    /\ c_result = None

CatInit ==
    /\ c_pc = "idle"
    /\ c_calls = 0
    /\ products_url = None
    /\ c_refresh = FALSE
    /\ cache_file \in {None} \cup {Some(text) : text \in StaleTexts}
    /\ c_persisted = None
    /\ c_meta = 0
    /\ c_answers = <<>>
    /\ c_pages = 0
    /\ c_page = 0
    /\ c_products = <<>>
    /\ c_requests = 0
    /\ c_result = None

\* fetch_products_catalog(url, headers, cache_path, refresh) is called, and runs up to
\* its first request
FetchCall(url, refresh) ==
    /\ c_pc = "idle"
    /\ c_calls < MaxFetches
    /\ c_calls' = c_calls + 1
    /\ products_url' = url
    /\ c_refresh' = refresh
    /\ c_requests' = 0
    /\ \E entry \in {FetchEntry(cache_file, url, refresh)} :
          /\ c_pc' = IF entry = "probe" THEN "probe" ELSE "idle"
          /\ c_result' = IF entry = "cache" THEN Loads(Val(cache_file))
                         ELSE IF entry = "empty" THEN Some(JList(<<>>))
                         ELSE None
    /\ UNCHANGED <<cache_file, c_persisted, c_meta, c_answers, c_pages, c_page, c_products>>
    /\ CatFrame

\* the first request, answered by MetaResponses[k], and what the call makes of it
Probe(k) ==
    /\ c_pc = "probe"
    /\ c_requests' = c_requests + 1
    /\ c_meta' = k
    /\ c_answers' = <<>>
    /\ c_pages' = PagesOf(MetaResponses[k])
    /\ c_page' = 1
    /\ c_products' = <<>>
    /\ c_pc' = IF PagesOf(MetaResponses[k]) >= 1 THEN "page" ELSE "write"
    /\ UNCHANGED <<c_calls, products_url, c_refresh, cache_file, c_persisted, c_result>>
    /\ CatFrame

FetchPage_StopOnFailure(k) ==
    /\ c_pc = "page"
    /\ c_requests' = c_requests + 1
    /\ c_answers' = Append(c_answers, k)
    /\ c_products' = c_products \o PageItems(PageResponses[k])
    /\ c_page' = c_page + 1
    /\ c_pc' = IF c_page = c_pages \/ IsNone(JsonOf(PageResponses[k])) THEN "write" ELSE "page"
    /\ UNCHANGED <<c_calls, products_url, c_refresh, cache_file, c_persisted, c_meta,
                   c_pages, c_result>>
    /\ CatFrame

\* one iteration of the page loop, the request answered by PageResponses[k]
FetchPage(k) ==
    /\ c_pc = "page"
    /\ c_requests' = c_requests + 1
    /\ c_answers' = Append(c_answers, k)
    /\ c_products' = c_products \o PageItems(PageResponses[k])
    /\ c_page' = c_page + 1
    /\ c_pc' = IF c_page = c_pages THEN "write" ELSE "page"
    /\ UNCHANGED <<c_calls, products_url, c_refresh, cache_file, c_persisted, c_meta,
                   c_pages, c_result>>
    /\ CatFrame

\* the cache is written, or the write fails before or after the file is opened, and
\* the call returns products
WriteCache(outcome) ==
    /\ c_pc = "write"
    /\ cache_file' = IF outcome = "written" THEN Some(Dumps(JList(c_products)))
                     ELSE IF outcome = "truncated" THEN Some("")
                     ELSE cache_file
    /\ c_persisted' = IF outcome = "written" THEN Some(c_products)
                      ELSE IF outcome = "truncated" THEN None
                      ELSE c_persisted
    /\ c_result' = Some(JList(c_products))
    /\ c_pc' = "idle"
    /\ UNCHANGED <<c_calls, products_url, c_refresh, c_meta, c_answers, c_pages, c_page,
                   c_products, c_requests>>
    /\ CatFrame

CatNext ==
    \/ \E url \in ProductsUrls, refresh \in BOOLEAN : FetchCall(url, refresh)
    \/ \E k \in DOMAIN MetaResponses : Probe(k)
    \/ \E k \in DOMAIN PageResponses : FetchPage(k)
    \/ \E outcome \in {"written", "truncated", "refused"} : WriteCache(outcome)

-----------------------------------------------------------------------------
(* The specifications. *)

\* extract_invoice_lines over pages of text
Init == ExtractInit /\ TokIdle /\ MainIdle /\ CatIdle /\ IdxIdle

Spec == Init /\ [][ExtractNext]_vars

\* parse_invoice_line over candidates
InitTokenizer == TokInit /\ ExtractIdle /\ MainIdle /\ CatIdle /\ IdxIdle

SpecTokenizer == InitTokenizer /\ [][TokNext]_vars

\* main, after the extraction: the lookups, then the stock updates
InitMain == MainInit /\ TokIdle /\ CatIdle /\ IdxIdle

SpecMain == InitMain /\ [][MainNext]_vars

\* fetch_products_catalog, call after call
InitCatalog == CatInit /\ ExtractIdle /\ TokIdle /\ MainIdle /\ IdxIdle

SpecCatalog == InitCatalog /\ [][CatNext]_vars

\* build_product_index over product lists
InitIndex == IdxInit /\ ExtractIdle /\ TokIdle /\ MainIdle /\ CatIdle

SpecIndex == InitIndex /\ [][IdxNext]_vars

-----------------------------------------------------------------------------
(* Claims on the extraction pipeline. *)

\* a step of the inner loop: the line it read is text_line'
ReadStep == line_no' = line_no + 1

\* the records of lines on page p, by their index in lines
OnPage(p) == {i \in 1..Len(lines) : lines[i].page = p}

\* C1: every emitted record has a reference that contains a digit, a non-empty
\* description, and a quantity, a unit price and a line total that parsed (none is None).
C1_RecordsWellFormed ==
    \A i \in 1..Len(lines) :
        LET p == lines[i].payload
        IN  /\ HasDigit(p.reference)
            /\ p.description # ""
            /\ ~IsNone(p.quantity)
            /\ ~IsNone(p.unit_price)
            /\ ~IsNone(p.line_total)

\* records with and without a VAT token, and one with a negative quantity
C1_Witness ==
    /\ \E i \in 1..Len(lines) : ~IsNone(lines[i].payload.tva)
    /\ \E i \in 1..Len(lines) :
          /\ IsNone(lines[i].payload.tva)
          /\ Val(lines[i].payload.quantity).m < 0

\* C2: the rows of the records of one page are 1, 2, ..., k in emission order, so the
\* first record of every page has row 1; and the counter is the number of records the
\* current page has emitted, so a line that emits no record does not advance it.
C2_RowsPerPage ==
    /\ \A i \in 1..Len(lines) :
          lines[i].row = Cardinality({j \in 1..i : lines[j].page = lines[i].page})
    /\ pc = "page" => row_counter = Cardinality(OnPage(page_index))

\* page 1 emitted two records, and the first record of page 2 has row 1 again, after
\* lines of page 2 that emitted nothing
C2_Witness ==
    /\ Len(lines) = 3
    /\ lines[1].page = 1 /\ lines[2].page = 1 /\ lines[2].row = 2
    /\ lines[3].page = 2 /\ lines[3].row = 1
    /\ line_no = 4

\* C3: page numbers never decrease along lines; a step only appends to lines (what was
\* appended stays, in place and as it was); and every accepted candidate appends one
\* record, also when an identical record is already there.
C3_PagesNonDecreasing ==
    \A i, j \in 1..Len(lines) : i < j => lines[i].page <= lines[j].page

C3_AppendOnly ==
    /\ Len(lines') >= Len(lines)
    /\ SubSeq(lines', 1, Len(lines)) = lines

C3_AcceptedAppends ==
    \A cleaned \in {Strip(text_line')} :
    \A cand \in {Candidate(buffer, cleaned)} :
        (/\ ReadStep
         /\ cleaned # ""
         /\ ~IsIgnored(template_type, cand)
         /\ ~IsNone(parse_invoice_line(cand)))
        => /\ Len(lines') = Len(lines) + 1
           /\ lines'[Len(lines')].raw = cand
           /\ lines'[Len(lines')].page = page_index

C3_PageMajorAppendOnly ==
    /\ []C3_PagesNonDecreasing
    /\ [][C3_AppendOnly /\ C3_AcceptedAppends]_vars

\* the same accepted line twice on one page gave two records, and a later page one more
C3_Witness ==
    /\ Len(lines) = 3
    /\ lines[1].raw = lines[2].raw
    /\ lines[1].page = lines[2].page
    /\ lines[3].page > lines[2].page

\* the tokens of the accumulated lines, line by line, in input order
RECURSIVE TokensOf(_)
TokensOf(ls) == IF ls = <<>> THEN <<>> ELSE Split(ls[1]) \o TokensOf(Tail(ls))

\* of a token sequence: the tokens between the first and the last three, any trailing
\* percent token aside
DescriptionOf(toks) ==
    LET body == IF is_percent_token(toks[Len(toks)]) THEN SubSeq(toks, 1, Len(toks) - 1)
                ELSE toks
    IN  Join(SubSeq(body, 2, Len(body) - 3))

\* C4: with text in the buffer, a non-blank line whose first token has no digit makes
\* the candidate buffer + " " + line; if the ignore filter passes it and it tokenizes,
\* one record is appended, its description the description tokens of the accumulated
\* lines in input order, and the buffer is emptied.
C4_ContinuationStep ==
    \A cleaned \in {Strip(text_line')} :
    \A cand \in {buffer \o " " \o cleaned} :
    LET rec == lines'[Len(lines')]
    IN  (/\ ReadStep
         /\ buffer # ""
         /\ cleaned # ""
         /\ ~HasDigit(Split(cleaned)[1])
         /\ ~IsIgnored(template_type, cand)
         /\ ~IsNone(parse_invoice_line(cand)))
        => /\ lines' = Append(lines, rec)
           /\ rec.raw = cand
           /\ rec.payload.description = DescriptionOf(TokensOf(Append(pending, cleaned)))
           /\ (pending = <<"REF002 Widget B part one">> /\ cleaned = "continued 2 5,00 10,00"
               => rec.payload.description = "Widget B part one continued")
           /\ buffer' = ""

C4_Continuation == [][C4_ContinuationStep]_vars

\* a record made of three accumulated lines
C4_Witness ==
    /\ Len(lines) = 1
    /\ lines[1].payload.description = "Widget B part one suite continued"
    /\ lines[1].payload.reference = "REF002"
    /\ buffer = ""

\* the keywords of the ignore filter, in lower case
BaseKeywords ==
    {"reference designation", "bon de livraison", "commande client", "sous total",
     "total ttc", "total ht", "rib"}

\* folded is a candidate in lower case
HasKeyword(folded, kws) == \E k \in kws : Contains(folded, k)

\* the step dropped the candidate: no record, and the buffer is empty
Dropped == lines' = lines /\ buffer' = ""

\* the step did not drop the candidate: it was emitted, or it is the buffer
NotDropped(cand) ==
    \/ Len(lines') = Len(lines) + 1 /\ lines'[Len(lines')].raw = cand
    \/ lines' = lines /\ buffer' = cand

\* C5: a candidate that contains "Total TTC", whatever the case, is dropped for every
\* document type; one that contains "Facture" is dropped unless the type is avoir, and
\* then it is not dropped, if it holds no other keyword; likewise "Avoir" and facture.
C5_IgnoreStep ==
    \A cleaned \in {Strip(text_line')} :
    \A cand \in {Candidate(buffer, cleaned)} :
    \A folded \in {LowerStr(cand)}, ttype \in {LowerStr(template_type)} :
        (ReadStep /\ cleaned # "")
        => /\ HasKeyword(folded, {"total ttc"}) => Dropped
           /\ HasKeyword(folded, {"facture"}) /\ ttype # "avoir" => Dropped
           /\ HasKeyword(folded, {"avoir"}) /\ ttype # "facture" => Dropped
           /\ (/\ HasKeyword(folded, {"facture"})
               /\ ttype = "avoir"
               /\ ~HasKeyword(folded, BaseKeywords \cup {"avoir"})) => NotDropped(cand)
           /\ (/\ HasKeyword(folded, {"avoir"})
               /\ ttype = "facture"
               /\ ~HasKeyword(folded, BaseKeywords \cup {"facture"})) => NotDropped(cand)

C5_IgnoreFilter == [][C5_IgnoreStep]_vars

\* for type avoir: a record whose text contains "facture" was emitted, pending text
\* was then dropped with a line that contains "total ttc"
C5_Witness ==
    /\ LowerStr(template_type) = "avoir"
    /\ Len(lines) = 1
    /\ Contains(LowerStr(lines[1].raw), "facture")
    /\ line_no = 4
    /\ text_line = "Total ttc 41,50"
    /\ buffer = ""

-----------------------------------------------------------------------------
(* Claims on the tokenizer. *)

\* the number a numeric token stands for once ',' is replaced by '.'
NumberOf(tok) == FloatOf(CommaToDot(tok))

\* C6: for an accepted candidate the result is: reference = the first token; vat = the
\* trailing percent token as written, or None; quantity, unit_price, line_total = the
\* last three remaining tokens in that order, each with ',' replaced by '.';
\* description = the tokens between the first and those three, joined by single
\* spaces; raw = the candidate unchanged.
C6_TokenizerResult ==
    (tok_pc = "returned" /\ ~IsNone(tok_out)) =>
        LET r == Val(tok_out)
            all == Split(tok_text)
            n == Len(all)
            hasVat == is_percent_token(all[n])
            k == IF hasVat THEN n - 1 ELSE n
        IN  /\ r.reference = all[1]
            /\ r.tva = IF hasVat THEN Some(all[n]) ELSE None
            /\ r.quantity = NumberOf(all[k - 2]) /\ ~IsNone(r.quantity)
            /\ r.unit_price = NumberOf(all[k - 1]) /\ ~IsNone(r.unit_price)
            /\ r.line_total = NumberOf(all[k]) /\ ~IsNone(r.line_total)
            /\ r.description = Join(SubSeq(all, 2, k - 3))
            /\ r.raw = tok_text
            /\ tok_text = "REF001 Widget A 3 10,50 31,50 20%" =>
                  /\ r.reference = "REF001"
                  /\ r.description = "Widget A"
                  /\ r.quantity = Some([m |-> 3, e |-> 0])
                  /\ r.unit_price = Some([m |-> 105, e |-> 1])
                  /\ r.line_total = Some([m |-> 315, e |-> 1])
                  /\ r.tva = Some("20%")

\* the example of the specification was accepted
C6_Witness ==
    /\ tok_pc = "returned"
    /\ tok_text = "REF001 Widget A 3 10,50 31,50 20%"
    /\ ~IsNone(tok_out)

-----------------------------------------------------------------------------
(* Claims on main: the lookups and the stock updates. *)

\* a decimal in thousandths, an integer
Milli(d) == d.m * Scale(1, 3 - d.e)

AbsInt(n) == IF n < 0 THEN -n ELSE n

\* a stock float() accepts: a number, or a string that spells one
NumericStock(j) == j.t = "num" \/ (j.t = "str" /\ ~IsNone(FloatOf(Strip(j.v))))

StockMilli(j) == IF j.t = "num" THEN 1000 * j.v ELSE Milli(Val(FloatOf(Strip(j.v))))

\* the records the stock loop has updated
Updated == {i \in 1..Len(lines) : "stock_update" \in DOMAIN lines[i].payload}

\* C7: for a record of quantity q, delta = -|q| for a facture and +|q| for an avoir,
\* whatever the sign of q; new_stock = initial_stock + delta when the record carries a
\* numeric initial_stock, and delta otherwise.  q = 4 with initial_stock 20 gives -4 and
\* 16 for a facture, +4 and 24 for an avoir.
C7_StockDelta ==
    \A i \in Updated :
        LET p == lines[i].payload
            q == Val(p.quantity)
            su == p["stock_update"]
            sign == IF template_type = "facture" THEN -1 ELSE 1
            numeric == "initial_stock" \in DOMAIN p /\ NumericStock(p["initial_stock"])
        IN  /\ Milli(su.delta) = sign * AbsInt(Milli(q))
            /\ numeric => Milli(su.new_stock) = StockMilli(p["initial_stock"]) + Milli(su.delta)
            /\ ~numeric => su.new_stock = su.delta
            /\ (Milli(q) = 4000 /\ numeric /\ StockMilli(p["initial_stock"]) = 20000) =>
                  /\ Milli(su.delta) = sign * 4000
                  /\ Milli(su.new_stock) = 20000 + sign * 4000

\* a facture: quantity 4 on a stock of 20 gave 16, and quantity 1,5 on a stock that is
\* no number gave -1.5
C7_Witness ==
    /\ template_type = "facture"
    /\ Len(lines) = 2
    /\ Updated = {1, 2}
    /\ lines[1].payload.quantity = Some([m |-> 4, e |-> 0])
    /\ "initial_stock" \in DOMAIN lines[1].payload
    /\ lines[1].payload["initial_stock"].t = "num"
    /\ lines[1].payload["initial_stock"].v = 20
    /\ lines[1].payload["stock_update"].new_stock = [m |-> 16, e |-> 0]
    /\ "initial_stock" \in DOMAIN lines[2].payload
    /\ lines[2].payload["initial_stock"].t = "str"
    /\ lines[2].payload["initial_stock"].v = "n/a"
    /\ lines[2].payload["stock_update"].new_stock = [m |-> -15, e |-> 1]

\* the PATCH requests sent so far
Patches == SelectSeq(net_log, LAMBDA r : r.method = "PATCH")

\* the lookups sent so far
Lookups == SelectSeq(net_log, LAMBDA r : r.method = "GET")

\* the records the stock loop has sent a PATCH for
Attempted ==
    IF m_pc = "log" THEN m_i
    ELSE IF m_pc = "reconcile" /\ UpdateEnabled THEN m_i - 1
    ELSE IF m_pc = "done" /\ UpdateEnabled THEN Len(lines)
    ELSE 0

\* the id the record was resolved to, or else its reference
Target(i) ==
    IF "lookup_id" \in DOMAIN lines[i].payload THEN lines[i].payload["lookup_id"]
    ELSE lines[i].payload.reference

\* one PATCH per record up to the one the loop is at, in record order, each aimed at
\* the record's id or else its reference
C8_OneAttemptEach ==
    /\ Len(Patches) = Attempted
    /\ \A k \in 1..Len(Patches) :
          Patches[k].url = "U/" \o Target(k) \o "/stock"
    /\ (m_pc = "done" /\ UpdateEnabled) => Updated = 1..Len(lines)

\* the answer to the PATCH of the record the loop is at
PatchAnswer == Val(last_answer)

\* C8, as claimed: one PATCH per record, in order, whatever happened to the earlier
\* ones; the status is patched iff the answer was a 2xx; and the audit log has
\* one entry per attempt once the attempt is over.
C8_AsClaimed ==
    /\ C8_OneAttemptEach
    /\ m_pc = "log" =>
          (lines[m_i].payload["stock_update"].status = "patched"
             <=> (PatchAnswer.kind = "http" /\ PatchAnswer.status \in 200..299))
    /\ m_pc = "log" => lines[m_i].payload["stock_update"].status \in {"patched", "failed"}
    /\ m_pc \in {"reconcile", "done"} => Len(audit_log) = Attempted
    /\ m_pc = "log" => Len(audit_log) = Attempted - 1

\* the audit log after a step is the audit log before it, plus at most one entry, and
\* that only in the logging step of an attempt
C8_LogStep ==
    \/ audit_log' = audit_log
    \/ /\ m_pc = "log"
       /\ Len(audit_log') = Len(audit_log) + 1
       /\ SubSeq(audit_log', 1, Len(audit_log)) = audit_log
       /\ LET e == audit_log'[Len(audit_log')]
              p == lines[m_i].payload
          IN  /\ e.reference = p.reference
              /\ e.product_id = Target(m_i)
              /\ e.status = p["stock_update"].status
              /\ e.delta = p["stock_update"].delta
              /\ e.new_stock = p["stock_update"].new_stock

\* C8, amended: one PATCH per record, in order, whatever happened to the earlier ones;
\* the status is patched iff the request did not raise and the answer's status is not
\* 4xx or 5xx (raise_for_status), failed otherwise; and log_stock_event runs once per
\* attempt, after it, appending one entry unless the write fails: the audit log never
\* has more entries than attempts, and each entry is that of the attempt just made.
C8_Inv ==
    /\ C8_OneAttemptEach
    /\ m_pc = "log" =>
          (lines[m_i].payload["stock_update"].status = "patched"
             <=> (PatchAnswer.kind = "http" /\ ~(PatchAnswer.status \in 400..599)))
    /\ m_pc = "log" => lines[m_i].payload["stock_update"].status \in {"patched", "failed"}
    /\ m_pc \in {"reconcile", "done"} => Len(audit_log) <= Attempted
    /\ m_pc = "log" => Len(audit_log) <= Attempted - 1

C8_Amended == []C8_Inv /\ [][C8_LogStep]_vars

\* the first PATCH failed, the second was sent all the same and succeeded, and both
\* are in the audit log
C8_Witness ==
    /\ m_pc = "done"
    /\ Len(lines) = 2
    /\ Len(Patches) = 2
    /\ lines[1].payload["stock_update"].status = "failed"
    /\ lines[2].payload["stock_update"].status = "patched"
    /\ Len(audit_log) = 2
    /\ audit_log[1].status = "failed"
    /\ audit_log[2].status = "patched"

\* the records the resolver is done with
Resolved ==
    IF m_pc = "resolve" THEN (IF IsNone(lookup_url) THEN {} ELSE 1..(m_i - 1))
    ELSE 1..Len(lines)

InIndex(i) == Strip(lines[i].payload.reference) \in DOMAIN product_index

\* the resolver took record i from the index
TakenFromIndex(i) ==
    LET p == lines[i].payload
        entry == product_index[Strip(p.reference)]
    IN  /\ PGet(p, "lookup_id") = Some(entry.id)
        /\ verbose_lookups => PGet(p, "lookup_status") = Some("from_cache")
        /\ entry.stock # JNull => PGet(p, "initial_stock") = Some(entry.stock)
        /\ entry.stock = JNull => PGet(p, "initial_stock") = None

\* one lookup for each resolved record that is not in the index, in record order, and
\* none for the others
LookupsOnlyForMisses ==
    LET misses == SelectSeq([i \in 1..Len(lines) |-> i],
                            LAMBDA i : i \in Resolved /\ ~InIndex(i))
    IN  /\ Len(Lookups) <= Len(misses)
        /\ \A k \in 1..Len(Lookups) :
              Lookups[k].url = "L?ref=" \o lines[misses[k]].payload.reference

\* C10, as claimed: a record whose trimmed reference is a key of the index has the id of
\* the index (status from_cache when verbose) and the entry's stock as initial_stock when
\* it is known, and no lookup is sent for it; lookups are sent only for the other
\* records, at most one each.
C10_AsClaimed ==
    /\ \A i \in Resolved : InIndex(i) => TakenFromIndex(i)
    /\ LookupsOnlyForMisses

\* the same, for the runs whose configuration has a lookup URL
C10_WithLookupUrl == ~IsNone(lookup_url) => C10_AsClaimed

-----------------------------------------------------------------------------
(* Claims on fetch_products_catalog. *)

\* a call is made with refresh false while the file holds the list a fetch wrote
CacheHitCall ==
    /\ c_pc = "idle"
    /\ c_calls' = c_calls + 1
    /\ ~c_refresh'
    /\ ~IsNone(cache_file)
    /\ ~IsNone(c_persisted)

\* C9: once a fetch has written the product list to the cache file, a call with refresh
\* false sends no request, neither the first one nor one for a page, and returns the
\* list that was written, also when products_url is None.
C9_CacheHitStep ==
    CacheHitCall =>
        /\ c_pc' = "idle"
        /\ c_requests' = 0
        /\ c_result' = Some(JList(Val(c_persisted)))

C9_CacheHit == [][C9_CacheHitStep]_vars

\* the second call had no products_url and refresh false, and returned the three items
\* the first had written, without a request
C9_Witness ==
    /\ c_calls = 2
    /\ c_pc = "idle"
    /\ products_url = None
    /\ ~c_refresh
    /\ c_requests = 0
    /\ ~IsNone(c_persisted)
    /\ Len(Val(c_persisted)) = 3
    /\ c_result = Some(JList(Val(c_persisted)))
    /\ cache_file = Some(Dumps(JList(Val(c_persisted))))

-----------------------------------------------------------------------------
(* Claims on main: the runs without a lookup URL, and the remote lookups. *)

\* C11, as claimed: in a run without a lookup URL, once the resolver is past, a record
\* whose reference is in the index has the index's id and initial_stock, a record whose
\* reference is not in it has the status skipped_no_lookup_url (recorded when the
\* statuses are, with verbose_lookups), and no lookup was sent.
C11_AsClaimed ==
    (IsNone(lookup_url) /\ m_pc # "resolve") =>
        /\ Lookups = <<>>
        /\ \A i \in 1..Len(lines) :
              LET p == lines[i].payload
              IN  p.reference # "" =>
                     /\ InIndex(i) => TakenFromIndex(i)
                     /\ (~InIndex(i) /\ verbose_lookups) =>
                            PGet(p, "lookup_status") = Some("skipped_no_lookup_url")

\* a dict with the key id
HasId(j) == j.t = "dict" /\ "id" \in DOMAIN j.v

\* the first element of a list that has one, or null
FirstOf(j) == IF j.t = "list" /\ j.v # <<>> THEN j.v[1] ELSE JNull

\* the id of the first shape of the precedence order that the body has, or None
ShapeId(body) ==
    IF HasId(body) THEN Some(Str(body.v["id"]))
    ELSE IF body.t = "dict" /\ HasId(Get(body, "data")) THEN Some(Str(Get(body, "data").v["id"]))
    ELSE IF body.t = "dict" /\ HasId(FirstOf(Get(body, "data")))
         THEN Some(Str(FirstOf(Get(body, "data")).v["id"]))
    ELSE IF HasId(FirstOf(body)) THEN Some(Str(FirstOf(body).v["id"]))
    ELSE None

\* the id and the status of a lookup answered by resp, http_error being the case failed
Outcome(resp, failed) ==
    IF failed THEN <<None, "http_error">>
    ELSE IF ~resp.json THEN <<None, "invalid_json">>
    ELSE IF ~IsNone(ShapeId(resp.body)) THEN <<ShapeId(resp.body), "ok">>
    ELSE <<None, "no_id">>

\* the step sends a lookup for the record m_i, and the record and the loop are after it
\* as the outcome expected says
LookupStepGives(expected) ==
    \A p \in {lines'[m_i].payload} :
        /\ expected[2] \in {"http_error", "invalid_json", "ok", "no_id"}
        /\ verbose_lookups => PGet(p, "lookup_status") = Some(expected[2])
        /\ ~verbose_lookups => PGet(p, "lookup_status") = None
        /\ PGet(p, "lookup_id") = expected[1]
        /\ "lookup_id" \in DOMAIN p => expected[2] = "ok"
        /\ m_pc' = "resolve"
        /\ m_i' = m_i + 1
        /\ Len(lines') = Len(lines)
        /\ \A j \in 1..Len(lines) : j # m_i => lines'[j] = lines[j]

SendsLookup == m_pc = "resolve" /\ Len(net_log') = Len(net_log) + 1

\* once the lookup loop is over, every record that is not in the index was looked up
AllMissesLookedUp ==
    (m_pc # "resolve" /\ ~IsNone(lookup_url)) =>
        Len(Lookups) = Cardinality({i \in 1..Len(lines) : ~InIndex(i)})

\* C12, as claimed: a lookup ends in one of the four statuses: http_error when the
\* request raises or the answer is not a 2xx, invalid_json when the body is not JSON, ok
\* with the id of the first shape of the precedence order, no_id otherwise; the id is
\* attached only in the ok case and the loop goes on with the next record.
C12_AsClaimedStep ==
    SendsLookup =>
        \A resp \in {Val(last_answer')} :
            LookupStepGives(Outcome(resp, resp.kind = "raise" \/ ~(resp.status \in 200..299)))

C12_AsClaimed == [][C12_AsClaimedStep]_vars /\ []AllMissesLookedUp

\* C12, amended: the same, http_error being the case where the request raises or the
\* answer's status is 4xx or 5xx (raise_for_status); an answer of another status, a 3xx
\* that is not followed for instance, is read as a 2xx is.
C12_AmendedStep ==
    SendsLookup =>
        \A resp \in {Val(last_answer')} :
            LookupStepGives(Outcome(resp, resp.kind = "raise" \/ resp.status \in 400..599))

C12_Amended == [][C12_AmendedStep]_vars /\ []AllMissesLookedUp

\* the first lookup failed, the second was sent all the same, its answer had an id at
\* the top and another under data, and the record has the one at the top
C12_Witness ==
    /\ Len(lines) = 2
    /\ m_i = 3
    /\ m_pc = "resolve"
    /\ verbose_lookups
    /\ Len(Lookups) = 2
    /\ PGet(lines[1].payload, "lookup_status") = Some("http_error")
    /\ PGet(lines[1].payload, "lookup_id") = None
    /\ last_answer = Some(LookupResponses[7])
    /\ PGet(lines[2].payload, "lookup_status") = Some("ok")
    /\ PGet(lines[2].payload, "lookup_id") = Some("7")

-----------------------------------------------------------------------------
(* Claims on parse_invoice_line: a second pass, and what it accepts. *)

\* C13: parse_invoice_line applied to the raw text of a dict it returned returns a dict
\* again, of the same reference, description, quantity, unit_price, line_total and vat.
C13_Idempotent ==
    tok_pc = "reparsed" =>
        /\ ~IsNone(tok_out)
        /\ \A f \in {"reference", "description", "quantity", "unit_price", "line_total", "tva"} :
              Val(tok_out)[f] = Val(tok_first)[f]

\* a candidate of irregular spacing, with a VAT token, went through both passes
C13_Witness ==
    /\ tok_pc = "reparsed"
    /\ tok_text = "  R1   ab  3 1,50\t4,50  5,5% "
    /\ ~IsNone(tok_out)
    /\ Val(tok_out).tva = Some("5,5%")
    /\ Val(tok_out).description = "ab"

-----------------------------------------------------------------------------
(* Claims on build_product_index. *)

CodeAliases == <<"product_code", "code", "reference">>
IdAliases == <<"id", "product_id">>
StockAliases == <<"quantity", "stock_quantity", "stock_level">>

\* the value under the first alias whose value counts (is not None, empty or zero), or
\* null when there is none
FirstMatch(p, aliases) ==
    LET hits == {i \in DOMAIN aliases : Truthy(Get(p, aliases[i]))}
    IN  IF hits = {} THEN JNull
        ELSE Get(p, aliases[CHOOSE i \in hits : \A j \in hits : i <= j])

\* the stock: the key stock when it is not null, else the first of the other aliases
\* that counts, else what stock_level holds
StockMatch(p) ==
    IF Get(p, "stock") # JNull THEN Get(p, "stock")
    ELSE IF FirstMatch(p, StockAliases) # JNull THEN FirstMatch(p, StockAliases)
    ELSE Get(p, "stock_level")

\* the product i has a code, which trimmed is key
Carries(i, key) ==
    /\ FirstMatch(idx_products[i], CodeAliases) # JNull
    /\ Strip(Str(FirstMatch(idx_products[i], CodeAliases))) = key

\* the product i has a code and an id
HasCodeAndId(i) ==
    /\ FirstMatch(idx_products[i], CodeAliases) # JNull
    /\ FirstMatch(idx_products[i], IdAliases) # JNull

\* the entry of the index under key is made of the id and the stock of the product i
EntryOf(key, i) ==
    /\ FirstMatch(idx_products[i], IdAliases) # JNull
    /\ idx_out[key].id = Str(FirstMatch(idx_products[i], IdAliases))
    /\ idx_out[key].stock = StockMatch(idx_products[i])

Last(S) == CHOOSE i \in S : \A j \in S : j <= i

-----------------------------------------------------------------------------
(* C15: a new-reference line discards the pending text. *)

\* C15. Whenever a non-blank line whose first token contains a digit arrives, the
\* candidate is that line alone: the buffer afterwards is empty or that line, the text
\* pending afterwards is nothing or that line, and a record emitted on it has that line
\* as raw text; on every other line the pending text only grows by the line or is
\* dropped, and the buffer is at all times the pending lines joined by blanks, so that
\* no text read before a new-reference line reaches a later candidate or record.
C15_ReferenceLineDiscards ==
    /\ [](buffer = Join(pending))
    /\ [][ReadStep =>
            \E cleaned \in {Strip(text_line')} :
              IF cleaned = "" THEN buffer' = buffer /\ pending' = pending
              ELSE IF looks_like_reference_line(cleaned)
              THEN /\ Candidate(buffer, cleaned) = cleaned
                   /\ buffer' \in {"", cleaned}
                   /\ pending' \in {<<>>, <<cleaned>>}
                   /\ lines' # lines => lines'[Len(lines')].raw = cleaned
              ELSE /\ pending' \in {<<>>, Append(pending, cleaned)}
                   /\ lines' # lines =>
                        lines'[Len(lines')].raw = Join(Append(pending, cleaned))]_vars

\* a new-reference line has thrown away buffered text and is now buffered alone
C15_Witness ==
    /\ discarded # ""
    /\ buffer = Strip(text_line)
    /\ pending = <<buffer>>
    /\ ~Contains(buffer, discarded)

-----------------------------------------------------------------------------
(* C16: what parse_invoice_line accepts. *)

\* the tokens of text without a trailing VAT token
Remaining(text) ==
    LET all == Split(text)
    IN  IF all # <<>> /\ is_percent_token(all[Len(all)])
        THEN SubSeq(all, 1, Len(all) - 1) ELSE all

HasSeparator(tok) == Contains(tok, ",") \/ Contains(tok, ".")

\* the six conditions of acceptance, on a candidate
Acceptable(text) ==
    \E rest \in {Remaining(text)} :
        /\ Len(Split(text)) >= 5
        /\ Len(rest) >= 4
        /\ \A j \in (Len(rest) - 2)..Len(rest) : is_number_token(rest[j])
        /\ \A j \in (Len(rest) - 1)..Len(rest) : HasSeparator(rest[j])
        /\ HasDigit(rest[1])
        /\ \E j \in 1..Len(rest) : 1 < j /\ j < Len(rest) - 2

\* C16. parse_invoice_line returns a dict if and only if the candidate has at least 5
\* tokens, at least 4 remain once a trailing digits[,digits]% token is removed, the last
\* three of them match -?digits([.,]digits)?, the last two hold ',' or '.', the first
\* holds a digit and a token lies strictly between the first and the last three; so a
\* candidate whose unit price or total is a bare integer gives None, and one whose
\* quantity is a bare integer and that meets the conditions gives a dict.
C16_AcceptanceRule ==
    tok_pc \in {"returned", "reparsed"} =>
        /\ ~IsNone(tok_out) <=> Acceptable(tok_text)
        /\ \A rest \in {Remaining(tok_text)} :
              (Len(rest) >= 2 /\ \E j \in (Len(rest) - 1)..Len(rest) : AllDigits(rest[j]))
                  => IsNone(tok_out)

\* a candidate with a VAT token and a bare-integer quantity was accepted
C16_Witness ==
    /\ tok_pc = "returned"
    /\ ~IsNone(tok_out)
    /\ ~IsNone(Val(tok_out).tva)
    /\ \E rest \in {Remaining(tok_text)} : AllDigits(rest[Len(rest) - 2])

-----------------------------------------------------------------------------
(* C17: the buffer is scoped to one page and emptied by a record or an ignored line. *)

\* a line was read on which a record was emitted or the ignore filter matched
EmitsOrIgnores ==
    /\ ReadStep
    /\ \E cleaned \in {Strip(text_line')} :
          /\ cleaned # ""
          /\ \/ Len(lines') > Len(lines)
             \/ IsIgnored(template_type, Candidate(buffer, cleaned))

\* C17. The buffer is empty when a page starts and right after a line on which a record
\* is emitted or the ignore filter matches; whatever is pending was read on the current
\* page; and a record carries the page it was emitted on and has as raw text the lines
\* pending on that page and the line just read, so that no candidate and no raw text
\* holds text of two pages or text that was buffered before an ignored line.
C17_BufferScopedToPage ==
    /\ [](pending # <<>> => buffer_page = page_index)
    /\ [](pending = <<>> <=> buffer = "")
    /\ [][page_index' # page_index => buffer' = "" /\ pending' = <<>>]_vars
    /\ [][EmitsOrIgnores => buffer' = "" /\ pending' = <<>>]_vars
    /\ [][Len(lines') > Len(lines) =>
            \E rec \in {lines'[Len(lines')]}, cleaned \in {Strip(text_line')} :
                /\ rec.page = page_index
                /\ rec.columns[1].value = Candidate(Join(pending), cleaned)
                /\ rec.raw = rec.columns[1].value]_vars

\* page 2 has started with an empty buffer although the last line of page 1 was buffered
C17_Witness ==
    /\ page_index = 2
    /\ text_line = "REF002 Widget B part one"
    /\ discarded = text_line
    /\ buffer = ""
    /\ pending = <<>>

-----------------------------------------------------------------------------
(* C20: the buffer grows with every unresolved line. *)

\* the line cleaned is not blank, is no new-reference line, and its candidate neither
\* matches the ignore filter nor parses
Unresolved(cleaned) ==
    /\ cleaned # ""
    /\ ~looks_like_reference_line(cleaned)
    /\ \E cand \in {Join(Append(pending, cleaned))} :
          /\ ~IsIgnored(template_type, cand)
          /\ IsNone(parse_invoice_line(cand))

\* the step added the line cleaned to the buffer
Grown(cleaned) ==
    /\ pending' = Append(pending, cleaned)
    /\ buffer' = Join(pending')
    /\ Len(buffer') = Len(buffer) + Len(cleaned) + (IF buffer = "" THEN 0 ELSE 1)
    /\ lines' = lines

\* what may shrink the buffer: a record, an ignore match, a new-reference line, a page end
ShrinkingStep ==
    \/ page_index' # page_index
    \/ /\ ReadStep
       /\ \E cleaned \in {Strip(text_line')} :
             \/ Len(lines') > Len(lines)
             \/ looks_like_reference_line(cleaned)
             \/ cleaned # "" /\ IsIgnored(template_type, Candidate(buffer, cleaned))

\* C20. A non-blank line that is no new-reference line, matches no ignore keyword and
\* completes no record is added to the buffer whatever the buffer already holds: the
\* buffer afterwards is all the pending lines and this one, joined by blanks, and is
\* longer than before; and the buffer gets shorter only on an emitted record, an
\* ignore match, a new-reference line or the end of the page.
C20_BufferGrows ==
    /\ [][ReadStep =>
            \E cleaned \in {Strip(text_line')} : Grown(cleaned) \/ ~Unresolved(cleaned)]_vars
    /\ [][Len(buffer') < Len(buffer) => ShrinkingStep]_vars

\* a page of MaxLines lines, all of them in the buffer
C20_Witness ==
    /\ line_no = MaxLines
    /\ Len(pending) = MaxLines
    /\ buffer = Join(pending)
    /\ buffer_page = page_index
    /\ lines = <<>>

-----------------------------------------------------------------------------
(* C18: how many requests a network fetch of the catalog sends. *)

\* the metadata the first request brought: the object under "error" when the body is a
\* dict that has one, the body otherwise, the empty dict when there is no JSON body
MetaBlock(k) ==
    LET data == JsonOf(MetaResponses[k])
    IN  IF IsNone(data) THEN JDict(EmptyDict)
        ELSE IF Val(data).t = "dict" /\ "error" \in DOMAIN Val(data).v
        THEN Get(Val(data), "error")
        ELSE Val(data)

\* a metadata field, JNull when the metadata is no dict or lacks it
MetaField(k, name) ==
    IF MetaBlock(k).t = "dict" THEN Get(MetaBlock(k), name) ELSE JNull

PerPageField(k) ==
    IF MetaField(k, "results_per_page").t = "num" /\ MetaField(k, "results_per_page").v # 0
    THEN MetaField(k, "results_per_page") ELSE MetaField(k, "results_perpage")

\* the least number of pages of per_page items that hold total items
PagesFor(total, per_page) ==
    CHOOSE n \in 0..total : n * per_page >= total /\ \A q \in 0..(n - 1) : q * per_page < total

Known(j) == j.t = "num"

KnownNonZero(j) == j.t = "num" /\ j.v # 0

\* N as stated: pages if present, else ceil(total / per_page) if both are known, else 1
ClaimedPageCount(k) ==
    IF Known(MetaField(k, "pages")) THEN MetaField(k, "pages").v
    ELSE IF Known(MetaField(k, "results")) /\ Known(PerPageField(k))
    THEN PagesFor(MetaField(k, "results").v, PerPageField(k).v)
    ELSE 1

\* N with a count of 0 taken as absent
PageCount(k) ==
    IF KnownNonZero(MetaField(k, "pages")) THEN MetaField(k, "pages").v
    ELSE IF KnownNonZero(MetaField(k, "results")) /\ KnownNonZero(PerPageField(k))
    THEN PagesFor(MetaField(k, "results").v, PerPageField(k).v)
    ELSE 1

\* C18 as stated: a network fetch sends 1 + N requests, N being the pages value if
\* present, else ceil(total / per_page) if both are known, else 1.
C18_AsClaimed ==
    c_pc = "write" => c_requests = 1 + ClaimedPageCount(c_meta)

\* C18, amended. After the one metadata request the fetch requests pages 1..N in
\* ascending order, each once, 1 + N requests in all, where N is the pages value if it
\* is present and not 0, else ceil(total / per_page) if both are present and not 0,
\* else 1.
C18_Amended ==
    /\ [](c_pc = "write" => c_requests = 1 + PageCount(c_meta))
    /\ [](c_pc = "page" => c_requests = c_page /\ c_page <= PageCount(c_meta))
    /\ [][c_pc = "probe" => c_requests = 0 /\ c_requests' = 1 /\ c_page' = 1]_vars
    /\ [][c_pc = "page" => c_requests' = c_requests + 1 /\ c_page' = c_page + 1]_vars

\* a fetch whose metadata gave 3 results by pages of 2 has sent its 3 requests
C18_Witness ==
    /\ c_pc = "write"
    /\ ~Known(MetaField(c_meta, "pages"))
    /\ Known(MetaField(c_meta, "results")) /\ MetaField(c_meta, "results").v = 3
    /\ PerPageField(c_meta).t = "num" /\ PerPageField(c_meta).v = 2
    /\ c_requests = 3
    /\ c_page = 3

-----------------------------------------------------------------------------
(* C19: the catalog fetch tolerates failures. *)

\* the page request got a JSON body
PageSucceeded(k) == PageResponses[k].kind = "http" /\ PageResponses[k].json

\* the items of a page that succeeded: the list under "data", or the body when it is
\* a list
ItemsOfPage(k) ==
    LET body == PageResponses[k].body
    IN  IF body.t = "list" THEN body.v
        ELSE IF body.t = "dict" /\ "data" \in DOMAIN body.v /\ body.v["data"].t = "list"
        THEN body.v["data"].v
        ELSE <<>>

\* the items of the pages that succeeded, in the order of the requests
RECURSIVE Gathered(_)
Gathered(answers) ==
    IF answers = <<>> THEN <<>>
    ELSE Gathered(SubSeq(answers, 1, Len(answers) - 1))
         \o (IF PageSucceeded(answers[Len(answers)])
             THEN ItemsOfPage(answers[Len(answers)]) ELSE <<>>)

\* the call finds a cache file that cannot be decoded
CallOnBadCache ==
    /\ c_pc = "idle"
    /\ c_calls' = c_calls + 1
    /\ ~c_refresh'
    /\ ~IsNone(cache_file)
    /\ IsNone(Loads(Val(cache_file)))

\* C19. A page whose request raises or whose body is not JSON adds no items and the
\* pages after it are still requested: when the loop ends every page has been requested
\* and products is the items of the pages that succeeded, in page order; a call that
\* finds an undecodable cache file goes on to the URL test and the first request; and
\* whether the cache write succeeds or fails the call returns the gathered list.
C19_FailureTolerant ==
    /\ [](c_pc \in {"page", "write"} => c_products = Gathered(c_answers))
    /\ [](c_pc = "write" => Len(c_answers) = c_pages)
    /\ [][c_pc = "page" /\ c_page < c_pages => c_pc' = "page"]_vars
    /\ [][CallOnBadCache =>
            IF IsNone(products_url') THEN c_pc' = "idle" /\ c_result' = Some(JList(<<>>))
            ELSE c_pc' = "probe"]_vars
    /\ [][c_pc = "write" =>
            /\ c_pc' = "idle"
            /\ c_result' = Some(JList(Gathered(c_answers)))
            /\ cache_file' \in {cache_file, Some(""), Some(Dumps(JList(c_products)))}]_vars

\* a fetch whose first page request raised and whose second page brought one item has
\* returned that item, the cache write having failed
C19_Witness ==
    /\ c_pc = "idle"
    /\ Len(c_answers) = 2
    /\ ~PageSucceeded(c_answers[1])
    /\ PageResponses[c_answers[1]].kind = "raise"
    /\ PageSucceeded(c_answers[2])
    /\ c_result = Some(JList(<<CatalogItems[1]>>))
    /\ IsNone(c_persisted)
    /\ cache_file = Some("")

-----------------------------------------------------------------------------
(* C21: the lines a record is built from. *)

\* a group of lines a record may be built from: a new-reference line, then lines that
\* are neither blank nor new-reference lines
RecordGroup(group) ==
    /\ group # <<>>
    /\ looks_like_reference_line(group[1])
    /\ \A i \in 2..Len(group) : group[i] # "" /\ ~looks_like_reference_line(group[i])

\* C21. A record is built from one new-reference line and the non-blank lines read
\* after it on the same page (blank lines are skipped), none of them a new-reference
\* line and none ignored: its raw text is these lines joined by blanks; the lines are
\* used up by the record, so a line is part of one record at most; and lines that do
\* not begin with a new-reference line never make a record.
C21_OneReferencePerRecord ==
    /\ [](\A i \in 1..Len(pending) :
            /\ pending[i] # ""
            /\ i > 1 => ~looks_like_reference_line(pending[i]))
    /\ [][Len(lines') > Len(lines) =>
            \E cleaned \in {Strip(text_line')}, rec \in {lines'[Len(lines')]} :
            \E group \in {Append(IF looks_like_reference_line(cleaned) THEN <<>> ELSE pending,
                                  cleaned)} :
                /\ ReadStep
                /\ Len(lines') = Len(lines) + 1
                /\ RecordGroup(group)
                /\ rec.raw = Join(group)
                /\ rec.payload.reference = Split(group[1])[1]
                /\ Len(group) > 1 => buffer_page = page_index
                /\ ~IsIgnored(template_type, rec.raw)
                /\ pending' = <<>> /\ buffer' = ""]_vars
    /\ [][(ReadStep /\ pending # <<>> /\ ~looks_like_reference_line(pending[1])
              /\ ~looks_like_reference_line(Strip(text_line')))
            => lines' = lines]_vars

\* a record made of a new-reference line alone, then one made of a new-reference line
\* and the line after it
C21_Witness ==
    /\ Len(lines) = 2
    /\ lines[1].raw = "REF001 Widget A 3 10,50 31,50 20%"
    /\ lines[2].raw = "REF002 Widget B part one continued 2 5,00 10,00"
    /\ line_no = 3
    /\ pending = <<>>

-----------------------------------------------------------------------------
(* C22: the stock sent for a record does not see the updates sent before it. *)

\* record i carries an initial_stock float() accepts
HasNumericStock(i) ==
    /\ "initial_stock" \in DOMAIN lines[i].payload
    /\ NumericStock(lines[i].payload["initial_stock"])

\* the stock the PATCH of record i must carry, in thousandths: the initial_stock the
\* resolver read, if numeric, minus |q| for a facture and plus |q| otherwise
StockToSend(i) ==
    (IF HasNumericStock(i) THEN StockMilli(lines[i].payload["initial_stock"]) ELSE 0)
    + (IF template_type = "facture" THEN -1 ELSE 1)
      * AbsInt(Milli(Val(lines[i].payload.quantity)))

\* C22. The stock sent for a record is made of the document type, the record's
\* quantity and the initial_stock the resolver read from the index, and of nothing
\* else: the stock loop changes neither the index nor any initial_stock, and for two
\* records of a facture with the same reference and the same initial_stock s the
\* values sent are s - |q1| and then s - |q2|, not s - |q1| - |q2|.
C22_NoRunningStock ==
    /\ [](\A k \in 1..Len(Patches) : Milli(Patches[k].stock) = StockToSend(k))
    /\ [](\A i \in 1..Len(lines) :
            "initial_stock" \in DOMAIN lines[i].payload =>
                /\ InIndex(i)
                /\ lines[i].payload["initial_stock"].t
                     = product_index[Strip(lines[i].payload.reference)].stock.t
                /\ lines[i].payload["initial_stock"].v
                     = product_index[Strip(lines[i].payload.reference)].stock.v)
    /\ [][(m_pc = "reconcile" \/ m_pc = "log") =>
            /\ product_index' = product_index
            /\ \A i \in 1..Len(lines) :
                  PGet(lines'[i].payload, "initial_stock")
                      = PGet(lines[i].payload, "initial_stock")]_vars
    /\ [](\A i, j \in 1..Len(Patches) :
            (/\ i < j
             /\ template_type = "facture"
             /\ lines[i].payload.reference = lines[j].payload.reference
             /\ HasNumericStock(i) /\ HasNumericStock(j))
            => /\ Milli(Patches[i].stock)
                    = StockMilli(lines[i].payload["initial_stock"])
                      - AbsInt(Milli(Val(lines[i].payload.quantity)))
               /\ Milli(Patches[j].stock)
                    = StockMilli(lines[j].payload["initial_stock"])
                      - AbsInt(Milli(Val(lines[j].payload.quantity)))
               /\ Milli(Patches[j].stock)
                    # StockMilli(lines[j].payload["initial_stock"])
                      - AbsInt(Milli(Val(lines[i].payload.quantity)))
                      - AbsInt(Milli(Val(lines[j].payload.quantity))))

\* a facture with two records of the reference REF001, stock 20 in the index,
\* quantities -3 and 4: the values sent are 17 and then 16
C22_Witness ==
    /\ m_pc = "done"
    /\ template_type = "facture"
    /\ Len(lines) = 2
    /\ lines[1].payload.reference = "REF001" /\ lines[2].payload.reference = "REF001"
    /\ HasNumericStock(1) /\ StockMilli(lines[1].payload["initial_stock"]) = 20000
    /\ HasNumericStock(2) /\ StockMilli(lines[2].payload["initial_stock"]) = 20000
    /\ Milli(Val(lines[1].payload.quantity)) = -3000
    /\ Milli(Val(lines[2].payload.quantity)) = 4000
    /\ Len(Patches) = 2
    /\ Milli(Patches[1].stock) = 17000
    /\ Milli(Patches[2].stock) = 16000

-----------------------------------------------------------------------------
(* C23: an empty catalog in the cache stays. *)

\* the text json.dumps writes for the empty list
EmptyListText == Dumps(JList(<<>>))

\* C23 as stated: a network fetch always overwrites the cache with what it aggregated.
C23_AsClaimed ==
    [][c_pc = "write" => cache_file' = Some(Dumps(JList(c_products)))]_vars

\* C23, amended. A network fetch whose cache write succeeds overwrites the cache with
\* what it aggregated, the empty list included (only a fetch writes the file, and a
\* failed write leaves it as it was or empty); while the file holds the empty list,
\* every call with refresh false returns the empty list, sends no request and leaves
\* the file as it is, so that only a call with refresh true fetches again.
C23_Amended ==
    /\ [][c_pc = "write" =>
            /\ cache_file' \in {Some(Dumps(JList(c_products))), Some(""), cache_file}
            /\ c_persisted' = Some(c_products)
                  => cache_file' = Some(Dumps(JList(c_products)))
            /\ (c_persisted' = Some(c_products) /\ c_products = <<>>)
                  => cache_file' = Some("[]")]_vars
    /\ [][cache_file' # cache_file => c_pc = "write"]_vars
    /\ [][(c_pc = "idle" /\ c_calls' = c_calls + 1 /\ ~c_refresh'
              /\ cache_file = Some(EmptyListText))
            => /\ c_pc' = "idle"
               /\ c_requests' = 0
               /\ c_result' = Some(JList(<<>>))
               /\ cache_file' = cache_file]_vars
    /\ [][(c_pc = "probe" /\ cache_file = Some(EmptyListText)) => c_refresh]_vars

\* the first request and the one page request of the first call failed and the empty
\* list was written; the second call, refresh false, returned it without a request
C23_Witness ==
    /\ c_calls = 2
    /\ c_pc = "idle"
    /\ products_url = Some("P")
    /\ ~c_refresh
    /\ c_meta # 0 /\ MetaResponses[c_meta].kind = "raise"
    /\ c_answers # <<>>
    /\ \A i \in 1..Len(c_answers) : PageResponses[c_answers[i]].kind = "raise"
    /\ c_persisted = Some(<<>>)
    /\ cache_file = Some("[]")
    /\ c_requests = 0
    /\ c_result = Some(JList(<<>>))

====
